---- MODULE Spec2Model ----
(***************************************************************************)
(* The access-control pipeline of pensieve: the email validator            *)
(* (lib/validators/email.ts), the POST /api/validate-email handler         *)
(* (app/api/validate-email/route.ts) and the perimeter gate (proxy).       *)
(* Strings are sequences of one-character strings.                         *)
(***************************************************************************)
EXTENDS Naturals, Integers, Sequences, FiniteSets, TLC

VARIABLES
    vInput,         \* validator: the value handed to emailSchema.safeParse
    vResult,        \* validator: the result of safeParse
    vPrev,          \* validator: an earlier call kept for comparison
    gRequest,       \* gate: the request handed to proxy()
    gResponse,      \* gate: what proxy() returned
    gHops,          \* gate: how many redirects the client has followed
    env,            \* endpoint: process.env and the limiter module state
    allowed_emails, \* endpoint: rows of public.allowed_emails
    pc,             \* endpoint: position of the handler
    req,            \* endpoint: the request being handled
    email,          \* endpoint: validationResult.data.email
    resp,           \* endpoint: the response returned
    trace,          \* endpoint: what the handler touched on the way
    first,          \* endpoint: an earlier exchange kept for comparison
    now,            \* limiter: Date.now(), in ticks
    rl,             \* limiter: the counters kept by the counter service
    rlCache,        \* limiter: the in-process cache of blocked identifiers
    hist,           \* limiter: when each key was let through, and the last call
    ipRequest,      \* client key: the request handed to getClientIp
    ipKey,          \* client key: what getClientIp returned
    step,           \* login page: 'email' or 'passkey'
    loginEmail,     \* login page: the email state (the input's value)
    isLoading,      \* login page: the loading flag
    cooldownUntil,  \* login page: null, or the time before which retries are ignored
    error,          \* login page: null, or the message displayed
    lpc,            \* login page: position of the handler that is running
    pend,           \* login page: the locals of the running handler
    clock,          \* login page: Date.now(), in milliseconds
    lhist,          \* login page: what the handlers did, kept for the properties
    seedRun,        \* seeding script: its locals and position while it runs
    userTable,      \* database: rows of the "user" table
    triggers,       \* database: check_allowed_email and the triggers on "user"
    shist           \* seeding script: what the runs did, kept for the properties

vars == <<vInput, vResult, vPrev, gRequest, gResponse, gHops, env, allowed_emails, pc,
          req, email, resp, trace, first, now, rl, rlCache, hist,
          ipRequest, ipKey, step, loginEmail, isLoading, cooldownUntil, error,
          lpc, pend, clock, lhist, seedRun, userTable, triggers, shist>>

None == [none |-> TRUE]

(***************************************************************************)
(* Strings                                                                 *)
(***************************************************************************)
UpperLetters == <<"A","B","C","D","E","F","G","H","I","J","K","L","M",
                  "N","O","P","Q","R","S","T","U","V","W","X","Y","Z">>
LowerLetters == <<"a","b","c","d","e","f","g","h","i","j","k","l","m",
                  "n","o","p","q","r","s","t","u","v","w","x","y","z">>
Digits == {"0","1","2","3","4","5","6","7","8","9"}
WhiteSpace == {" ", "\t", "\n", "\r"}

Range(s) == {s[i] : i \in 1..Len(s)}
IsUpper(c) == c \in Range(UpperLetters)
IsLower(c) == c \in Range(LowerLetters)
IsLetter(c) == IsUpper(c) \/ IsLower(c)
IsDigit(c) == c \in Digits

\* String.prototype.toLowerCase, one character
LowerChar(c) ==
    IF IsUpper(c)
    THEN LowerLetters[CHOOSE i \in 1..Len(UpperLetters) : UpperLetters[i] = c]
    ELSE c

\* String.prototype.toLowerCase
toLowerCase(s) == [i \in 1..Len(s) |-> LowerChar(s[i])]

\* String.prototype.indexOf for one character, 1-based; 0 when absent
indexOf(s, c) ==
    IF \E i \in 1..Len(s) : s[i] = c
    THEN CHOOSE i \in 1..Len(s) : s[i] = c /\ \A j \in 1..(i - 1) : s[j] # c
    ELSE 0

\* String.prototype.trim
trim(s) ==
    LET kept == {i \in 1..Len(s) : s[i] \notin WhiteSpace}
    IN  IF kept = {} THEN <<>>
        ELSE SubSeq(s, CHOOSE i \in kept : \A j \in kept : i <= j,
                       CHOOSE i \in kept : \A j \in kept : i >= j)

\* String.prototype.startsWith
startsWith(s, p) == Len(p) <= Len(s) /\ SubSeq(s, 1, Len(p)) = p

\* Array.prototype.includes on an array of strings
includes(arr, x) == \E i \in 1..Len(arr) : arr[i] = x

\* String.prototype.split(sep) for a one-character separator
RECURSIVE split(_, _)
split(s, sep) ==
    LET i == indexOf(s, sep)
    IN  IF i = 0 THEN <<s>>
        ELSE <<SubSeq(s, 1, i - 1)>> \o split(SubSeq(s, i + 1, Len(s)), sep)

\* Array.prototype.filter(Boolean) on an array of strings: drops the empty ones
RECURSIVE filterBoolean(_)
filterBoolean(arr) ==
    IF arr = <<>> THEN <<>>
    ELSE IF Head(arr) = <<>> THEN filterBoolean(Tail(arr))
    ELSE <<Head(arr)>> \o filterBoolean(Tail(arr))

Repeat(c, n) == [i \in 1..n |-> c]

(***************************************************************************)
(* Email validator: lib/validators/email.ts                                *)
(***************************************************************************)
MaxEmailLength == 254

\* A value handed to a schema: a string, or a value of another type
Str(s) == [type |-> "string", val |-> s]
NonStrings == {[type |-> "number"], [type |-> "null"], [type |-> "undefined"]}

IsAlnum(c) == IsLetter(c) \/ IsDigit(c)

\* zod's email pattern, the check behind .email():
\*   ^(?!\.)(?!.*\.\.)([A-Za-z0-9_'+\-\.]*)[A-Za-z0-9_+-]@
\*    ([A-Za-z0-9][A-Za-z0-9\-]*\.)+[A-Za-z]{2,}$
emailLocalPart(l) ==
    /\ Len(l) >= 1
    /\ \A i \in 1..(Len(l) - 1) : IsAlnum(l[i]) \/ l[i] \in {"_", "'", "+", "-", "."}
    /\ IsAlnum(l[Len(l)]) \/ l[Len(l)] \in {"_", "+", "-"}

emailDomainLabel(x) ==
    /\ Len(x) >= 1
    /\ IsAlnum(x[1])
    /\ \A i \in 2..Len(x) : IsAlnum(x[i]) \/ x[i] = "-"

emailTld(x) == Len(x) >= 2 /\ \A i \in 1..Len(x) : IsLetter(x[i])

emailDomain(d) ==
    LET labels == split(d, ".")
        n == Len(labels)
    IN  /\ n >= 2
        /\ \A i \in 1..(n - 1) : emailDomainLabel(labels[i])
        /\ emailTld(labels[n])

emailRegexTest(s) ==
    /\ s # <<>>
    /\ s[1] # "."
    /\ ~ \E i \in 1..(Len(s) - 1) : s[i] = "." /\ s[i + 1] = "."
    /\ \E p \in 1..Len(s) :
          /\ s[p] = "@"
          /\ emailLocalPart(SubSeq(s, 1, p - 1))
          /\ emailDomain(SubSeq(s, p + 1, Len(s)))

InvalidType == [kind |-> "InvalidType", message |-> "Expected string"]
InvalidFormat == [kind |-> "InvalidFormat", message |-> "Invalid email format"]
TooLong == [kind |-> "TooLong", message |-> "Email address is too long"]

emailNormalize_TrimOnly(s) == trim(s)

emailNormalize_LowerOnly(s) == toLowerCase(s)

emailNormalize_DropsLastChar(s) ==
    LET t == toLowerCase(trim(s)) IN SubSeq(t, 1, Len(t) - 1)

\* .trim().toLowerCase(): the value the later checks see
emailNormalize(s) == toLowerCase(trim(s))

emailCheck_EmptyIsRequired(s) ==
    IF s = <<>> THEN <<[kind |-> "Required", message |-> "Required"]>>
    ELSE IF emailRegexTest(s) THEN <<>> ELSE <<InvalidFormat>>

\* .email('Invalid email format')
emailCheck(s) == IF emailRegexTest(s) THEN <<>> ELSE <<InvalidFormat>>

maxCheck_OffByOne(s) == IF Len(s) >= MaxEmailLength THEN <<TooLong>> ELSE <<>>

\* .max(254, 'Email address is too long')
maxCheck(s) == IF Len(s) > MaxEmailLength THEN <<TooLong>> ELSE <<>>

emailSchema_LengthBeforeTrim(x) ==
    IF x.type # "string"
    THEN [success |-> FALSE, issues |-> <<InvalidType>>]
    ELSE LET data == emailNormalize(x.val)
             issues == emailCheck(data) \o maxCheck(x.val)
         IN  IF issues = <<>>
             THEN [success |-> TRUE, data |-> data]
             ELSE [success |-> FALSE, issues |-> issues]

\* emailSchema.safeParse(x): the checks run in order on the transformed value
\* and every failing check adds its issue
emailSchema(x) ==
    IF x.type # "string"
    THEN [success |-> FALSE, issues |-> <<InvalidType>>]
    ELSE LET data == emailNormalize(x.val)
             issues == emailCheck(data) \o maxCheck(data)
         IN  IF issues = <<>>
             THEN [success |-> TRUE, data |-> data]
             ELSE [success |-> FALSE, issues |-> issues]

\* validateEmailRequestSchema.safeParse(body), body the parsed JSON
validateEmailRequestSchema(body) ==
    IF body.type # "object"
    THEN [success |-> FALSE, issues |-> <<InvalidType>>]
    ELSE LET r == emailSchema(body.email)
         IN  IF r.success
             THEN [success |-> TRUE, data |-> [email |-> r.data]]
             ELSE r

(***************************************************************************)
(* Perimeter gate: proxy()                                                 *)
(***************************************************************************)
MinTokenLength == 10
MaxTokenLength == 500

LoginPath == <<"/","l","o","g","i","n">>
UnauthorizedPath == <<"/","u","n","a","u","t","h","o","r","i","z","e","d">>
ApiAuthPath == <<"/","a","p","i","/","a","u","t","h">>
ValidateEmailPath ==
    <<"/","a","p","i","/","v","a","l","i","d","a","t","e","-","e","m","a","i","l">>

publicRoutes == <<LoginPath, UnauthorizedPath, ApiAuthPath, ValidateEmailPath>>

SessionCookie == "better-auth.session_token"

isPublicRoute_ExactMatch(pathname) ==
    \E i \in 1..Len(publicRoutes) : pathname = publicRoutes[i]

\* publicRoutes.some(route => pathname.startsWith(route))
isPublicRoute(pathname) ==
    \E i \in 1..Len(publicRoutes) : startsWith(pathname, publicRoutes[i])

\* request.cookies.get(name): the cookie, or undefined
cookiesGet(cookies, name) ==
    IF name \in DOMAIN cookies THEN cookies[name] ELSE [present |-> FALSE]

\* NextResponse.next()
NextResponseNext == [kind |-> "next"]

RedirectToLogin_FixedOrigin(request) ==
    [kind |-> "redirect", status |-> 307,
     location |-> [origin |-> "http://localhost:3000", pathname |-> LoginPath]]

\* NextResponse.redirect(new URL("/login", request.url))
RedirectToLogin(request) ==
    [kind |-> "redirect", status |-> 307,
     location |-> [origin |-> request.origin, pathname |-> LoginPath]]

tokenFormatRejected_OffByOne(value) ==
    Len(value) <= MinTokenLength \/ Len(value) > MaxTokenLength

tokenFormatRejected(value) ==
    Len(value) < MinTokenLength \/ Len(value) > MaxTokenLength

proxy_SessionBeforePublicRoutes(request) ==
    LET sessionToken == cookiesGet(request.cookies, SessionCookie)
    IN  IF ~sessionToken.present \/ sessionToken.value = <<>>
        THEN RedirectToLogin(request)
        ELSE IF tokenFormatRejected(sessionToken.value)
             THEN RedirectToLogin(request)
        ELSE NextResponseNext

proxy(request) ==
    LET sessionToken == cookiesGet(request.cookies, SessionCookie)
    IN  IF isPublicRoute(request.pathname) THEN NextResponseNext
        ELSE IF ~sessionToken.present \/ sessionToken.value = <<>>
             THEN RedirectToLogin(request)
        ELSE IF tokenFormatRejected(sessionToken.value)
             THEN RedirectToLogin(request)
        ELSE NextResponseNext

(***************************************************************************)
(* POST /api/validate-email: app/api/validate-email/route.ts               *)
(***************************************************************************)
Undefined == [type |-> "undefined"]

\* a value is truthy: a non-empty string
Truthy(v) == v.type = "string" /\ v.val # <<>>

\* process.env.X || ''  and  req.headers.get(x) || ''
OrEmpty(v) == IF Truthy(v) THEN v.val ELSE <<>>

\* NextResponse.json(body, { status })
NextResponseJson(body, status) ==
    [status |-> status, body |-> body,
     headers |-> [h \in {"content-type"} |-> "application/json"]]

SecurityHeaders ==
    [h \in {"X-Content-Type-Options", "X-Frame-Options", "Cache-Control"} |->
        CASE h = "X-Content-Type-Options" -> "nosniff"
          [] h = "X-Frame-Options" -> "DENY"
          [] h = "Cache-Control" -> "no-store, no-cache, must-revalidate, private"]

addSecurityHeaders_NoCacheControl(response) ==
    [response EXCEPT !.headers =
        [h \in {"X-Content-Type-Options", "X-Frame-Options"} |-> SecurityHeaders[h]]
        @@ response.headers]

addSecurityHeaders(response) ==
    [response EXCEPT !.headers = SecurityHeaders @@ response.headers]

Ok200 == addSecurityHeaders(NextResponseJson([ok |-> TRUE], 200))
Message(msg, status) == addSecurityHeaders(NextResponseJson([message |-> msg], status))
InvalidEmail400 == Message("Invalid email", 400)
InvalidCredentials403 == Message("Invalid credentials", 403)
Forbidden403 == Message("Forbidden", 403)
TooManyRequests429 == Message("Too many requests", 429)
ValidationFailed500 == Message("Validation failed", 500)
Misconfiguration500 == Message("Server misconfiguration", 500)

\* getErrorMessage(err)
getErrorMessage(err) ==
    IF err.type = "object" /\ err.message.type = "string"
    THEN err.message.val
    ELSE err.asString

\* getErrorCode(err)
getErrorCode(err) ==
    IF err.type = "object" /\ err.code.type = "string"
    THEN err.code
    ELSE Undefined

\* messages on which /relation .*allowed_emails.* does not exist/i matches
RelationMissingMessages ==
    {"relation \"public.allowed_emails\" does not exist",
     "Relation \"ALLOWED_EMAILS\" Does Not Exist",
     "error: relation \"allowed_emails\" does not exist at character 15"}

relationMissingTest(msg) == msg \in RelationMissingMessages

\* env.split(',').map(s => s.trim().toLowerCase()).filter(Boolean)
parseAllowedEmails(envValue) ==
    LET parts == split(OrEmpty(envValue), ",")
    IN  filterBoolean([i \in 1..Len(parts) |-> toLowerCase(trim(parts[i]))])

fastPathTaken_OnlyWithoutLimiter(e) ==
    /\ e.NODE_ENV # "production" /\ Len(parseAllowedEmails(e.ALLOWED_EMAILS)) > 0
    /\ ~(e.REDIS_URL /\ e.REDIS_TOKEN)

fastPathTaken_AnyEnvironment(e) ==
    Len(parseAllowedEmails(e.ALLOWED_EMAILS)) > 0

\* the guard of the development fast path
fastPathTaken(e) ==
    e.NODE_ENV # "production" /\ Len(parseAllowedEmails(e.ALLOWED_EMAILS)) > 0

\* new URL(s): scheme "://" host, then an optional path, the scheme and the
\* host in lower case; throws otherwise
takeUntil(s, c) ==
    IF indexOf(s, c) = 0 THEN s ELSE SubSeq(s, 1, indexOf(s, c) - 1)

parseURL(s) ==
    LET scheme == takeUntil(s, ":")
        rest == SubSeq(s, Len(scheme) + 2, Len(s))
        host == takeUntil(SubSeq(rest, 3, Len(rest)), "/")
    IN  IF /\ scheme # <<>>
           /\ \A i \in 1..Len(scheme) : IsLetter(scheme[i])
           /\ startsWith(rest, <<"/", "/">>)
           /\ host # <<>>
        THEN [ok |-> TRUE, protocol |-> toLowerCase(Append(scheme, ":")),
              host |-> toLowerCase(host)]
        ELSE [ok |-> FALSE]

originRejected_ExactMatch(e, r) ==
    LET origin == OrEmpty(r.origin)
    IN  /\ e.NODE_ENV = "production"
        /\ origin # <<>>
        /\ Truthy(e.BETTER_AUTH_URL)
        /\ LET allowed == parseURL(e.BETTER_AUTH_URL.val)
           IN  /\ allowed.ok
               /\ origin # allowed.protocol \o <<"/", "/">> \o allowed.host

\* the production-only origin check
originRejected(e, r) ==
    LET origin == OrEmpty(r.origin)
    IN  /\ e.NODE_ENV = "production"
        /\ origin # <<>>
        /\ Truthy(e.BETTER_AUTH_URL)
        /\ LET allowed == parseURL(e.BETTER_AUTH_URL.val)
           IN  /\ allowed.ok
               /\ ~startsWith(origin, allowed.protocol \o <<"/", "/">> \o allowed.host)

\* lib/utils/rateLimit.ts: the limiter exists when both credentials are set
limiterConfigured_EitherCredential(e) == e.REDIS_URL \/ e.REDIS_TOKEN

limiterConfigured(e) == e.REDIS_URL /\ e.REDIS_TOKEN

UnknownIp == <<"u","n","k","n","o","w","n">>

getClientIp_Untrimmed(r) ==
    LET fwd == split(OrEmpty(r.xForwardedFor), ",")[1]
    IN  IF fwd # <<>> THEN fwd
        ELSE IF Truthy(r.xRealIp) THEN r.xRealIp.val
        ELSE UnknownIp

\* getClientIp(req)
getClientIp(r) ==
    LET fwd == trim(split(OrEmpty(r.xForwardedFor), ",")[1])
    IN  IF fwd # <<>> THEN fwd
        ELSE IF Truthy(r.xRealIp) THEN r.xRealIp.val
        ELSE UnknownIp

selectAllowedEmails_CaseSensitive(table, em) ==
    IF \E row \in table.rows : row = em THEN <<1>> ELSE <<>>

\* select 1 from public.allowed_emails where lower(email)=${email} limit 1
selectAllowedEmails(table, em) ==
    IF \E row \in table.rows : toLowerCase(row) = em THEN <<1>> ELSE <<>>

fallbackApplies_Always(e, err) == TRUE

fallbackApplies_DevelopmentOnly(e, err) == e.NODE_ENV # "production"

\* the guard of the configured-list fallback after a store error
fallbackApplies(e, err) ==
    \/ e.NODE_ENV # "production"
    \/ getErrorCode(err) = Str("42P01")
    \/ relationMissingTest(getErrorMessage(err))

\* errors the store client can throw
ErrUndefinedTable ==
    [type |-> "object", code |-> Str("42P01"),
     message |-> Str("relation \"public.allowed_emails\" does not exist"),
     asString |-> "PostgresError"]
ErrRelationMessage ==
    [type |-> "object", code |-> Undefined,
     message |-> Str("Relation \"ALLOWED_EMAILS\" Does Not Exist"),
     asString |-> "Error"]
ErrUndefinedTableCode ==
    [type |-> "object", code |-> Str("42P01"), message |-> Undefined,
     asString |-> "[object Object]"]
ErrConnectionRefused ==
    [type |-> "object", code |-> Str("ECONNREFUSED"),
     message |-> Str("connect ECONNREFUSED 127.0.0.1:5432"),
     asString |-> "Error"]
ErrPermissionDenied ==
    [type |-> "object", code |-> Str("42501"),
     message |-> Str("permission denied for relation allowed_emails"),
     asString |-> "PostgresError"]
ErrThrownString == [type |-> "string", asString |-> "timeout"]

TableMissingErrors == {ErrUndefinedTable, ErrRelationMessage, ErrUndefinedTableCode}
OtherStoreErrors == {ErrConnectionRefused, ErrPermissionDenied, ErrThrownString}

\* what the store can answer to the query
QueryOutcomes(table) ==
    (IF table.exists THEN {[kind |-> "rows"]}
     ELSE {[kind |-> "error", err |-> x] : x \in TableMissingErrors})
    \cup {[kind |-> "error", err |-> x] : x \in OtherStoreErrors}

EmptyTrace ==
    [decidedBy |-> "none", originChecked |-> FALSE, limiterKey |-> None,
     limiterOutcome |-> "none", delay |-> 0, storeQueried |-> FALSE,
     queryOutcome |-> [kind |-> "none"]]

Done(em, response, tr, by) ==
    [pc |-> "done", email |-> em, resp |-> response,
     trace |-> [tr EXCEPT !.decidedBy = by]]

dbStage_NoConnectionCheck(e, em, tr) ==
    [pc |-> "query", email |-> em, resp |-> None,
     trace |-> [tr EXCEPT !.storeQueried = TRUE,
                          !.queryOutcome = [kind |-> "pending"]]]

\* route.ts 124-139: the connection-string check, then the query is sent
dbStage(e, em, tr) ==
    IF ~Truthy(e.DATABASE_URL)
    THEN Done(em, Misconfiguration500, tr, "config")
    ELSE [pc |-> "query", email |-> em, resp |-> None,
          trace |-> [tr EXCEPT !.storeQueried = TRUE,
                               !.queryOutcome = [kind |-> "pending"]]]

\* route.ts 102-105: the limiter is called when it exists
limitStage(e, r, em, tr) ==
    IF limiterConfigured(e)
    THEN [pc |-> "limit", email |-> em, resp |-> None,
          trace |-> [tr EXCEPT !.limiterKey = [key |-> getClientIp(r)],
                               !.limiterOutcome = "pending"]]
    ELSE dbStage(e, em, tr)

\* the decision of the development fast path (route.ts 71)
fastPathOk(e, em) == includes(parseAllowedEmails(e.ALLOWED_EMAILS), toLowerCase(em))

fallbackOk_AsksNothing(e, em) == TRUE

fallbackOk_EmptyListAllows(e, em) ==
    \/ parseAllowedEmails(e.ALLOWED_EMAILS) = <<>>
    \/ includes(parseAllowedEmails(e.ALLOWED_EMAILS), em)

\* the decision of the configured-list fallback (route.ts 168-173)
fallbackOk(e, em) == includes(parseAllowedEmails(e.ALLOWED_EMAILS), em)

\* await req.json().catch(() => ({}))
parseBody(r) ==
    IF r.body.type = "unparseable"
    THEN [type |-> "object", email |-> Undefined]
    ELSE r.body

startStage_ReportsIssue(e, r) ==
    LET v == validateEmailRequestSchema(parseBody(r))
    IN  IF ~v.success
        THEN Done(<<>>, Message(v.issues[1].message, 400), EmptyTrace, "validation")
        ELSE LET em == v.data.email
             IN  IF fastPathTaken(e)
                 THEN Done(em, IF fastPathOk(e, em) THEN Ok200
                               ELSE InvalidCredentials403, EmptyTrace, "fast")
                 ELSE IF originRejected(e, r)
                 THEN Done(em, Forbidden403,
                           [EmptyTrace EXCEPT !.originChecked = TRUE], "origin")
                 ELSE limitStage(e, r, em,
                        [EmptyTrace EXCEPT
                            !.originChecked = (e.NODE_ENV = "production")])

\* route.ts 42-100: validation, fast path, origin check
startStage(e, r) ==
    LET v == validateEmailRequestSchema(parseBody(r))
    IN  IF ~v.success
        THEN Done(<<>>, InvalidEmail400, EmptyTrace, "validation")
        ELSE LET em == v.data.email
             IN  IF fastPathTaken(e)
                 THEN Done(em, IF fastPathOk(e, em) THEN Ok200
                               ELSE InvalidCredentials403, EmptyTrace, "fast")
                 ELSE IF originRejected(e, r)
                 THEN Done(em, Forbidden403,
                           [EmptyTrace EXCEPT !.originChecked = TRUE], "origin")
                 ELSE limitStage(e, r, em,
                        [EmptyTrace EXCEPT
                            !.originChecked = (e.NODE_ENV = "production")])

afterLimit_RespondsBeforeSleep(e, em, tr, outcome, d) ==
    LET t == [tr EXCEPT !.limiterOutcome = outcome]
    IN  CASE outcome = "success" -> dbStage(e, em, t)
          [] outcome = "exceeded" -> Done(em, TooManyRequests429, t, "limiter")
          [] outcome = "error" ->
                IF e.NODE_ENV = "production"
                THEN Done(em, ValidationFailed500, t, "limiterError")
                ELSE dbStage(e, em, t)

afterLimit_ErrorsIgnored(e, em, tr, outcome, d) ==
    LET t == [tr EXCEPT !.limiterOutcome = outcome]
    IN  CASE outcome = "success" -> dbStage(e, em, t)
          [] outcome = "exceeded" ->
                [pc |-> "sleep", email |-> em, resp |-> None,
                 trace |-> [t EXCEPT !.delay = d]]
          [] outcome = "error" -> dbStage(e, em, t)

\* route.ts 105-122: the limiter answered, or the call threw
afterLimit(e, em, tr, outcome, d) ==
    LET t == [tr EXCEPT !.limiterOutcome = outcome]
    IN  CASE outcome = "success" -> dbStage(e, em, t)
          [] outcome = "exceeded" ->
                [pc |-> "sleep", email |-> em, resp |-> None,
                 trace |-> [t EXCEPT !.delay = d]]
          [] outcome = "error" ->
                IF e.NODE_ENV = "production"
                THEN Done(em, ValidationFailed500, t, "limiterError")
                ELSE dbStage(e, em, t)

afterQuery_FallbackDenialDiffers(e, table, em, tr, o) ==
    LET t == [tr EXCEPT !.queryOutcome = o]
    IN  IF o.kind = "rows"
        THEN Done(em, IF Len(selectAllowedEmails(table, em)) > 0 THEN Ok200
                      ELSE InvalidCredentials403, t, "store")
        ELSE IF fallbackApplies(e, o.err)
        THEN Done(em, IF fallbackOk(e, em) THEN Ok200
                      ELSE Message("Email not allowed", 403), t, "fallback")
        ELSE Done(em, ValidationFailed500, t, "storeError")

\* route.ts 140-187: the query answered, or threw
afterQuery(e, table, em, tr, o) ==
    LET t == [tr EXCEPT !.queryOutcome = o]
    IN  IF o.kind = "rows"
        THEN Done(em, IF Len(selectAllowedEmails(table, em)) > 0 THEN Ok200
                      ELSE InvalidCredentials403, t, "store")
        ELSE IF fallbackApplies(e, o.err)
        THEN Done(em, IF fallbackOk(e, em) THEN Ok200
                      ELSE InvalidCredentials403, t, "fallback")
        ELSE Done(em, ValidationFailed500, t, "storeError")

(***************************************************************************)
(* The limiter: lib/utils/rateLimit.ts, Ratelimit.slidingWindow(5, '10 s')  *)
(***************************************************************************)
LimiterTokens == 5
WindowMs == 10000

\* the aligned window a time falls in: Math.floor(now / windowSize)
windowOf(t) == t \div WindowMs

\* the share of the previous window's count that still weighs on the
\* current one: floor((1 - (now % window) / window) * previous)
weightedPrevious(previous, t) ==
    (previous * (WindowMs - (t % WindowMs))) \div WindowMs

\* the count the service holds for a key and a window; 0 when there is none
countIn(store, key, w) == IF w \in DOMAIN store[key] THEN store[key][w] ELSE 0

\* the in-process cache says the key is blocked: a reset time not yet passed
isBlocked(cache, key, t) == cache[key] > 0 /\ cache[key] >= t

slidingWindowExceeded_OffByOne(store, key, t) ==
    weightedPrevious(countIn(store, key, windowOf(t) - 1), t)
        + countIn(store, key, windowOf(t)) > LimiterTokens

\* the sliding-window test of the counter service: the weighted count of the
\* previous window plus the count of the current one has reached the quota
slidingWindowExceeded(store, key, t) ==
    weightedPrevious(countIn(store, key, windowOf(t) - 1), t)
        + countIn(store, key, windowOf(t)) >= LimiterTokens

\* the store after the service counted one request of the key at time t
incremented(store, key, t) ==
    [store EXCEPT ![key] =
        [w \in (DOMAIN store[key]) \cup {windowOf(t)} |->
            IF w = windowOf(t) THEN countIn(store, key, w) + 1 ELSE store[key][w]]]

\* validateEmailLimiter.limit(key) at time t: a blocked key is refused from
\* the cache; otherwise the service refuses and the key is blocked until the
\* window ends, or the service counts the request and lets it through
limit(store, cache, key, t) ==
    IF isBlocked(cache, key, t)
    THEN [success |-> FALSE, counted |-> FALSE, store |-> store, cache |-> cache]
    ELSE IF slidingWindowExceeded(store, key, t)
    THEN [success |-> FALSE, counted |-> FALSE, store |-> store,
          cache |-> [cache EXCEPT ![key] = (windowOf(t) + 1) * WindowMs]]
    ELSE [success |-> TRUE, counted |-> TRUE,
          store |-> incremented(store, key, t), cache |-> cache]

\* the counters the service still holds at time t: a window's counter
\* expires once the window after it has ended
expired(store, t) ==
    [k \in DOMAIN store |->
        [w \in {x \in DOMAIN store[k] : x >= windowOf(t) - 1} |-> store[k][w]]]

(***************************************************************************)
(* Login page: app/login/page.tsx                                          *)
(***************************************************************************)
Null == [type |-> "null"]

\* String.prototype.includes
stringIncludes(s, p) ==
    \E i \in 0..(Len(s) - Len(p)) : SubSeq(s, i + 1, i + Len(p)) = p

\* 'Access denied: Your email is not authorized to access this application.'
AccessDeniedMessage ==
    <<"A","c","c","e","s","s"," ","d","e","n","i","e","d",":"," ","Y","o",
      "u","r"," ","e","m","a","i","l"," ","i","s"," ","n","o","t"," ",
      "a","u","t","h","o","r","i","z","e","d"," ","t","o"," ","a","c",
      "c","e","s","s"," ","t","h","i","s"," ","a","p","p","l","i","c",
      "a","t","i","o","n",".">>

\* 'Passkey authentication was cancelled.'
CancelledMessage ==
    <<"P","a","s","s","k","e","y"," ","a","u","t","h","e","n","t","i","c",
      "a","t","i","o","n"," ","w","a","s"," ","c","a","n","c","e","l",
      "l","e","d",".">>

\* 'Failed to authenticate. Please try again.'
FailedToAuthenticateMessage ==
    <<"F","a","i","l","e","d"," ","t","o"," ","a","u","t","h","e","n","t",
      "i","c","a","t","e","."," ","P","l","e","a","s","e"," ","t","r",
      "y"," ","a","g","a","i","n",".">>

\* 'Validation failed, please try again.'
ValidationFailedMessage ==
    <<"V","a","l","i","d","a","t","i","o","n"," ","f","a","i","l","e","d",
      ","," ","p","l","e","a","s","e"," ","t","r","y"," ","a","g","a",
      "i","n",".">>

\* 'Email not allowed'
EmailNotAllowedMessage ==
    <<"E","m","a","i","l"," ","n","o","t"," ","a","l","l","o","w","e",
      "d">>

\* 'Please enter a valid email address'
EnterValidEmailMessage ==
    <<"P","l","e","a","s","e"," ","e","n","t","e","r"," ","a"," ","v","a",
      "l","i","d"," ","e","m","a","i","l"," ","a","d","d","r","e","s",
      "s">>

\* 'Invalid email format'
InvalidEmailFormatText ==
    <<"I","n","v","a","l","i","d"," ","e","m","a","i","l"," ","f","o","r",
      "m","a","t">>

\* 'Email address is too long'
EmailTooLongText ==
    <<"E","m","a","i","l"," ","a","d","d","r","e","s","s"," ","i","s"," ",
      "t","o","o"," ","l","o","n","g">>

\* 'Expected string'
ExpectedStringText ==
    <<"E","x","p","e","c","t","e","d"," ","s","t","r","i","n","g">>

\* 'Passkey sign-in timeout'
SignInTimeoutMessage ==
    <<"P","a","s","s","k","e","y"," ","s","i","g","n","-","i","n"," ","t",
      "i","m","e","o","u","t">>

\* 'Unauthorized'
UnauthorizedText ==
    <<"U","n","a","u","t","h","o","r","i","z","e","d">>

\* 'User cancelled'
UserCancelledText ==
    <<"U","s","e","r"," ","c","a","n","c","e","l","l","e","d">>

\* 'NotAllowedError'
NotAllowedErrorText ==
    <<"N","o","t","A","l","l","o","w","e","d","E","r","r","o","r">>

\* 'already exists'
AlreadyExistsText ==
    <<"a","l","r","e","a","d","y"," ","e","x","i","s","t","s">>

SignUpTimeoutMs == 3500
RegistrationTimeoutMs == 15000
SignInTimeoutMs == 12000
CooldownMs == 5000

\* the characters of a validator issue's message
issueText(issue) ==
    CASE issue.message = "Invalid email format" -> InvalidEmailFormatText
      [] issue.message = "Email address is too long" -> EmailTooLongText
      [] issue.message = "Expected string" -> ExpectedStringText

\* validationResult.error.issues[0]?.message || 'Please enter a valid email address'
validatorErrorMessage(v) ==
    IF Len(v.issues) > 0 /\ issueText(v.issues[1]) # << >>
    THEN issueText(v.issues[1])
    ELSE EnterValidEmailMessage

responseOk_AnyResponse(res) == TRUE

\* res.ok
responseOk(res) == res.ok

\* await res.json().catch(() => ({}))
responseData(res) ==
    IF res.body.type = "unparseable"
    THEN [type |-> "object", message |-> Undefined]
    ELSE res.body

responseErrorMessage_AlwaysGeneric(res) == EmailNotAllowedMessage

\* data?.message || 'Email not allowed'
responseErrorMessage(res) ==
    LET data == responseData(res)
    IN  IF data.type = "object" /\ Truthy(data.message)
        THEN data.message.val
        ELSE EmailNotAllowedMessage

inCooldown_Inclusive(cd, t) == cd # Null /\ cd.val # 0 /\ t <= cd.val

\* cooldownUntil && Date.now() < cooldownUntil
inCooldown(cd, t) == cd # Null /\ cd.val # 0 /\ t < cd.val

timerFired_Never(deadline, t) == FALSE

\* the callback of setTimeout(..., ms) has run: the time is up
timerFired(deadline, t) == t >= deadline

\* lines 99-103: the sign-up result makes the inner try throw
signUpThrows(result) ==
    /\ result.type = "object"
    /\ result.error # Undefined
    /\ Truthy(result.error.message)
    /\ ~stringIncludes(result.error.message.val, AlreadyExistsText)

registrationThrows_MessageOnly(reg) ==
    reg.type = "object" /\ reg.error # Undefined /\ Truthy(reg.error.message)

\* line 119: if (reg?.error) throw
registrationThrows(reg) == reg.type = "object" /\ reg.error # Undefined

\* err.message?.includes(text)
messageIncludes(err, text) ==
    err.message.type = "string" /\ stringIncludes(err.message.val, text)

\* lines 130-145: what the outer catch displays and whether it starts the
\* cooldown; t is Date.now(), cd the cooldown kept so far
passkeyFailure(err, t, cd) ==
    IF messageIncludes(err, UnauthorizedText)
    THEN [error |-> Str(AccessDeniedMessage), cooldownUntil |-> cd]
    ELSE IF \/ messageIncludes(err, UserCancelledText)
            \/ messageIncludes(err, NotAllowedErrorText)
    THEN [error |-> Str(CancelledMessage), cooldownUntil |-> cd]
    ELSE [error |-> Str(IF Truthy(err.message) THEN err.message.val
                        ELSE FailedToAuthenticateMessage),
          cooldownUntil |-> [type |-> "number", val |-> t + CooldownMs]]

(***************************************************************************)
(* Seeding script: scripts/setup-allowed-emails.js, listed in SETUP.md     *)
(***************************************************************************)
\* lines 237-243: the emails a run will insert, from the argument or, when
\* it is missing or empty, from ALLOWED_EMAILS, then ALLOWED_EMAIL
seedEmails(argv, e) ==
    LET envEmails == IF Truthy(e.ALLOWED_EMAILS) THEN e.ALLOWED_EMAILS.val
                     ELSE OrEmpty(e.ALLOWED_EMAIL)
        source == IF Truthy(argv) THEN argv.val ELSE envEmails
        pieces == split(source, ",")
    IN  filterBoolean([i \in 1..Len(pieces) |-> trim(pieces[i])])

seedNormalize_KeepsCase(em) == em

\* line 255: const normalizedEmail = email.toLowerCase()
seedNormalize(em) == toLowerCase(em)

\* CREATE TABLE IF NOT EXISTS allowed_emails (email text PRIMARY KEY)
createTableIfNotExists(table) ==
    IF table.exists THEN table ELSE [exists |-> TRUE, rows |-> {}]

\* INSERT INTO allowed_emails (email) VALUES (...) ON CONFLICT (email) DO NOTHING
insertAllowedEmail(table, v) ==
    IF v \in table.rows THEN table ELSE [table EXCEPT !.rows = @ \cup {v}]

\* check_allowed_email(): the row passes when some allowlist entry equals
\* NEW.email after LOWER() on both sides
checkAllowedEmail(table, newEmail) ==
    \E row \in table.rows : toLowerCase(row) = toLowerCase(newEmail)

NoTriggers == [function |-> FALSE, onInsert |-> FALSE, onUpdate |-> FALSE]

\* BEFORE INSERT ON "user" FOR EACH ROW EXECUTE FUNCTION check_allowed_email()
insertRejected(trg, table, newEmail) ==
    trg.onInsert /\ ~checkAllowedEmail(table, newEmail)

\* BEFORE UPDATE OF email ON "user" FOR EACH ROW
\* WHEN (OLD.email IS DISTINCT FROM NEW.email)
updateRejected(trg, table, oldEmail, newEmail) ==
    trg.onUpdate /\ oldEmail # newEmail /\ ~checkAllowedEmail(table, newEmail)

(***************************************************************************)
(* Inputs                                                                  *)
(***************************************************************************)
MaxLen == 6            \* longest exhaustively enumerated validator input
MaxCookieLen == 502    \* longest session cookie value tried at the gate

Alphabet == {"a", "A", " ", "@", "."}

ShortStrings == UNION {[1..n -> Alphabet] : n \in 0..MaxLen}

\* inputs around the length limit: Repeat("a", k) \o "@b.cc"
LongEmail(n) == Repeat("a", n - 5) \o <<"@","b",".","c","c">>

SpecialStrings ==
    {LongEmail(MaxEmailLength - 1), LongEmail(MaxEmailLength),
     LongEmail(MaxEmailLength + 1), LongEmail(MaxEmailLength + 5),
     <<" ">> \o LongEmail(MaxEmailLength) \o <<" ">>,
     Repeat("a", MaxEmailLength + 1),
     Repeat("a", MaxEmailLength - 3) \o <<"@","b",".","c">>,
     <<"a","@","a",".","a","a","a">>, <<"\t","\r","\n">>,
     <<" ","a","@","a",".","a","a">>, <<"A","@","a",".","a","A"," ">>,
     Repeat(" ", MaxEmailLength + 1) \o <<"a","@","b",".","c","c">>,
     <<"a","!","@","b",".","c","c">>, <<"a","'","@","b",".","c","c">>, <<"a","'","a","@","b",".","c","c">>, <<".","a","@","b",".","c","c">>, <<"a",".",".","a","@","b",".","c","c">>,
     <<"a",".","a","@","b",".","c","c">>, <<"a","@","-","b",".","c","c">>, <<"a","@","b","-",".","c","c">>, <<"a","@","b",".","c","1">>, <<"1","@","1",".","c","c">>,
     <<"a","_","+","-","a","@","b",".","c","c">>, <<"a","@","b","_",".","c","c">>, <<"a","@","b",".","c",".","d","d">>, <<"\t">> \o <<"a","@","b",".","c","c">> \o <<"\n">>, <<"a"," ","a","@","b",".","c","c">>, <<"a","@","b",".","c">>,
     <<" "," ","T","e","s","t","@","E","x","a","m","p","l","e",".","C","O","M"," "," ">>}

ValidatorInputs ==
    {Str(s) : s \in ShortStrings \cup SpecialStrings} \cup NonStrings

\* String.prototype.toUpperCase, to build inputs
toUpperCase(s) ==
    [i \in 1..Len(s) |->
        IF IsLower(s[i])
        THEN UpperLetters[CHOOSE k \in 1..Len(LowerLetters) : LowerLetters[k] = s[i]]
        ELSE s[i]]

\* the same address typed with capitals and surrounded by whitespace
Decorated(s) == <<" ", "\t">> \o toUpperCase(s) \o <<"\n">>

\* what a caller validates next: the value it got back, or the address again
\* in another spelling
Resubmissions(x, r) ==
    (IF r.success THEN {Str(r.data)} ELSE {})
    \cup (IF x.type = "string" THEN {Str(Decorated(x.val))} ELSE {})

EnvConfigs ==
    [NODE_ENV : {"production", "development"},
     ALLOWED_EMAILS : {Undefined, Str(<<" ","A","@","B",".","c","c"," ",",","d","@","b",".","c","c",",">>), Str(<<",", " ">>)},
     DATABASE_URL : {Undefined, Str(<<"p">>)},
     BETTER_AUTH_URL : {Undefined, Str(<<"H",":","/","/","A","/">>), Str(<<"a">>)},
     REDIS_URL : BOOLEAN,
     REDIS_TOKEN : BOOLEAN]

Tables ==
    {[exists |-> FALSE, rows |-> {}],
     [exists |-> TRUE, rows |-> {}],
     [exists |-> TRUE, rows |-> {<<"a","@","b",".","c","c">>, <<"C","@","B",".","c","c">>}]}

StringBodies ==
    {[type |-> "object", email |-> Str(s)] :
        s \in {<<"a","@","b",".","c","c">>, <<" ","A","@","b",".","C","C"," ">>, <<"c","@","b",".","c","c">>, <<"C","@","B",".","c","c">>, <<"d","@","b",".","c","c">>, <<"a","@","b",".","c">>}}

Bodies ==
    StringBodies \cup
    {[type |-> "unparseable"], [type |-> "null"],
     [type |-> "object", email |-> Undefined],
     [type |-> "object", email |-> [type |-> "number"]],
     [type |-> "object", email |-> Str(LongEmail(MaxEmailLength + 1))]}

Origins == {Undefined, Str(<< >>), Str(<<"h",":","/","/","a">>), Str(<<"h",":","/","/","a">> \o <<".", "b">>), Str(<<"h",":","/","/","b">>)}

Requests ==
    [body : Bodies, origin : Origins,
     xForwardedFor : {Undefined, Str(<<" ", "1", ",", "2">>)},
     xRealIp : {Undefined}]

PairRequests ==
    [body : StringBodies, origin : {Undefined},
     xForwardedFor : {Undefined}, xRealIp : {Undefined}]

\* configurations without a limiter, for comparing two requests
PairConfigs == {c \in EnvConfigs : /\ ~c.REDIS_URL /\ ~c.REDIS_TOKEN
                                   /\ Truthy(c.DATABASE_URL)
                                   /\ c.BETTER_AUTH_URL = Undefined}

LimiterOutcomes == {"success", "exceeded", "error"}

TicksPerWindow == 4    \* clock steps in one 10-second window
MaxTicks == 8          \* clock steps before the clock is stopped
MaxBurst == 6          \* most unlimited requests followed between two clock steps

\* the step of the clock, in milliseconds
TickMs == WindowMs \div TicksPerWindow

\* requests with a valid email from two clients
LimiterRequests ==
    [body : {[type |-> "object", email |-> Str(<<"a","@","b",".","c","c">>)]},
     origin : {Undefined},
     xForwardedFor : {Undefined},
     xRealIp : {Undefined}]

LimiterKeys == {getClientIp(r) : r \in LimiterRequests}

MaxHeaderLen == 3      \* longest x-forwarded-for value tried

\* values of x-forwarded-for: lists of addresses, spaces and commas
ForwardedForValues ==
    UNION {[1..n -> {" ", ",", "1", "2"}] : n \in 0..MaxHeaderLen}

\* values of x-real-ip as Headers.get returns them
RealIpValues == {<< >>, <<"9">>, <<"1">>}

\* requests as getClientIp sees them: headers.get gives null or a string
HeaderRequests ==
    [xForwardedFor : {Undefined} \cup {Str(v) : v \in ForwardedForValues},
     xRealIp : {Undefined} \cup {Str(v) : v \in RealIpValues}]

\* configurations in which a valid request gets as far as the limiter (with
\* the limiter present, production only: development differs in nothing but
\* what follows a limiter call that throws), and development configurations
\* with a configured list and the limiter present
LimiterConfigs ==
    {c \in EnvConfigs : /\ c.ALLOWED_EMAILS = Undefined
                        /\ Truthy(c.DATABASE_URL)
                        /\ c.BETTER_AUTH_URL = Undefined
                        /\ limiterConfigured(c) => c.NODE_ENV = "production"}
    \cup {c \in EnvConfigs : /\ c.NODE_ENV = "development"
                             /\ c.ALLOWED_EMAILS # Undefined
                             /\ parseAllowedEmails(c.ALLOWED_EMAILS) # << >>
                             /\ Truthy(c.DATABASE_URL)
                             /\ c.BETTER_AUTH_URL = Undefined
                             /\ limiterConfigured(c)}

LimiterTables == {t \in Tables : t.rows # {}}

\* 200 + Math.random() * 300, in milliseconds
SleepDelays == {200, 499}

GatePaths ==
    {<<"/">>, <<"/","n","o","t","e","s">>, LoginPath, LoginPath \o <<"/", "x">>,
     LoginPath \o <<"x">>, SubSeq(LoginPath, 1, 4), <<"/","L","o","g","i","n">>,
     <<"/", "x">> \o LoginPath, UnauthorizedPath, ApiAuthPath,
     ApiAuthPath \o <<"/","s","e","s","s","i","o","n">>, SubSeq(ApiAuthPath, 1, 4), ValidateEmailPath}

CookieValues == {Repeat(c, n) : c \in {"x", "-"}, n \in 0..MaxCookieLen}

CookieOptions(values) ==
    {[present |-> FALSE]} \cup {[present |-> TRUE, value |-> v] : v \in values}

CookieJars ==
    {[k \in {SessionCookie, "theme"} |-> IF k = SessionCookie THEN c ELSE t] :
        c \in CookieOptions(CookieValues), t \in CookieOptions({Repeat("x", 25)})}

\* redirects a client follows before it gives up
MaxHops == 3

GateRequests ==
    [pathname : GatePaths, origin : {"http://localhost:3000", "https://notes.example"},
     cookies : CookieJars]

\* 'User already exists'
UserAlreadyExistsText ==
    <<"U","s","e","r"," ","a","l","r","e","a","d","y"," ","e","x","i","s",
      "t","s">>

\* a backend error text: 'connect ECONNREFUSED 127.0.0.1:5432'
BackendErrorText ==
    <<"c","o","n","n","e","c","t"," ","E","C","O","N","N","R","E","F","U",
      "S","E","D"," ","1","2","7",".","0",".","0",".","1",":","5","4",
      "3","2">>

MaxLoginTicks == 4     \* clock steps after which no handler is started

\* the step of the login page's clock, in milliseconds: half the cooldown, so
\* that a click can fall inside it
LoginTickMs == CooldownMs \div 2

\* what the user types into the email field
TypedEmails ==
    {<<"a","@","b",".","c","c">>, <<" ","A","@","b",".","C","C"," ">>, <<"a","@","b">>}

\* how fetch('/api/validate-email') settles: a response, or a network error
FetchOutcomes ==
    {[kind |-> "response", ok |-> TRUE, body |-> [type |-> "object", message |-> Undefined]],
     [kind |-> "response", ok |-> FALSE,
      body |-> [type |-> "object", message |-> Str(<<"I","n","v","a","l","i","d"," ","c","r","e","d","e","n","t","i","a",
                "l","s">>)]],
     [kind |-> "response", ok |-> FALSE, body |-> [type |-> "object", message |-> Str(<< >>)]],
     [kind |-> "response", ok |-> FALSE, body |-> [type |-> "object", message |-> Undefined]],
     [kind |-> "response", ok |-> FALSE, body |-> [type |-> "null"]],
     [kind |-> "response", ok |-> FALSE, body |-> [type |-> "unparseable"]],
     [kind |-> "error"]}

\* messages the session authority may put into an error
BackendMessages ==
    {Undefined, Str(<< >>), Str(UnauthorizedText), Str(UserCancelledText),
     Str(NotAllowedErrorText), Str(UserAlreadyExistsText), Str(BackendErrorText)}

\* how signUp.email settles: a result with or without an error, or an exception
SignUpOutcomes ==
    {[kind |-> "resolved", result |-> [type |-> "object", error |-> Undefined]]}
    \cup {[kind |-> "resolved",
           result |-> [type |-> "object", error |-> [message |-> m]]] :
              m \in {Undefined, Str(UserAlreadyExistsText), Str(BackendErrorText)}}
    \cup {[kind |-> "rejected"]}

\* how passkey.addPasskey settles
RegistrationOutcomes ==
    {[kind |-> "resolved", result |-> [type |-> "object", error |-> Undefined]],
     [kind |-> "resolved", result |-> [type |-> "undefined"]]}
    \cup {[kind |-> "resolved",
           result |-> [type |-> "object", error |-> [message |-> m]]] :
              m \in {Undefined, Str(BackendErrorText)}}
    \cup {[kind |-> "rejected"]}

\* how passkeySignIn settles: a result with or without an error, or an
\* exception with some message
SignInOutcomes ==
    {[kind |-> "resolved", result |-> [type |-> "object", error |-> Undefined]],
     [kind |-> "resolved",
      result |-> [type |-> "object",
                  error |-> [message |-> Str(BackendErrorText)]]]}
    \cup {[kind |-> "rejected", err |-> [message |-> m]] : m \in BackendMessages}

\* seeding: the runs and the writes to the "user" table
MaxSeedRuns == 2
MaxUsers == 1

SeedArguments == {Undefined, Str(<<" ","A",","," ",",","b">>)}

SeedEnvs ==
    [ALLOWED_EMAILS : {Undefined, Str(<<"b">>)},
     ALLOWED_EMAIL : {Undefined, Str(<<"C">>)}]

UserEmails == {<<"A">>, <<"b">>, <<"d">>}

(***************************************************************************)
(* Actions                                                                 *)
(***************************************************************************)
validatorVars == <<vInput, vResult, vPrev>>
gateVars == <<gRequest, gResponse, gHops>>
endpointVars == <<env, allowed_emails, pc, req, email, resp, trace, first>>
limiterVars == <<now, rl, rlCache, hist>>
keyVars == <<ipRequest, ipKey>>
loginVars == <<step, loginEmail, isLoading, cooldownUntil, error, lpc, pend,
               clock, lhist>>
seedVars == <<seedRun, userTable, triggers, shist>>

\* emailSchema.safeParse(x)
SafeParse ==
    /\ vResult = None
    /\ vResult' = emailSchema(vInput)
    /\ UNCHANGED <<seedVars, loginVars, keyVars, vInput, vPrev, gateVars, endpointVars, limiterVars>>

\* the caller keeps the result and validates another value
Resubmit(y) ==
    /\ vResult # None
    /\ vPrev = None
    /\ y \in Resubmissions(vInput, vResult)
    /\ vPrev' = [input |-> vInput, result |-> vResult]
    /\ vInput' = y
    /\ vResult' = None
    /\ UNCHANGED <<seedVars, loginVars, keyVars, gateVars, endpointVars, limiterVars>>

\* one evaluation of the gate
Proxy ==
    /\ gResponse = None
    /\ gResponse' = proxy(gRequest)
    /\ UNCHANGED <<seedVars, loginVars, keyVars, gRequest, gHops, validatorVars, endpointVars, limiterVars>>

\* the client follows the redirect: it requests the Location it was given,
\* with the cookies it has
FollowRedirect ==
    /\ gResponse # None /\ gResponse.kind = "redirect"
    /\ gHops < MaxHops
    /\ gRequest' = [pathname |-> gResponse.location.pathname,
                    origin |-> gResponse.location.origin,
                    cookies |-> gRequest.cookies]
    /\ gResponse' = None
    /\ gHops' = gHops + 1
    /\ UNCHANGED <<seedVars, loginVars, keyVars, validatorVars, endpointVars, limiterVars>>

Become(next) ==
    /\ pc' = next.pc
    /\ email' = next.email
    /\ resp' = next.resp
    /\ trace' = next.trace

\* a request enters POST and runs to its first response or await
Post(r) ==
    /\ pc = "idle"
    /\ req' = r
    /\ Become(startStage(env, r))
    /\ UNCHANGED <<seedVars, loginVars, keyVars, validatorVars, gateVars, limiterVars, env, allowed_emails, first>>

\* validateEmailLimiter.limit(key) answers or throws
LimiterReplies(outcome, d) ==
    /\ pc = "limit"
    /\ Become(afterLimit(env, email, trace, outcome, d))
    /\ UNCHANGED <<seedVars, loginVars, keyVars, validatorVars, gateVars, limiterVars, env, allowed_emails, req, first>>

\* a request enters POST while the clock and the counters are followed;
\* hist.unlimited counts, per client, the requests since the last clock step
\* for which the limiter was not called
Arrive(r) ==
    /\ pc = "idle"
    /\ hist.unlimited[getClientIp(r)] < MaxBurst
    /\ req' = r
    /\ Become(startStage(env, r))
    /\ hist' = [hist EXCEPT
           !.unlimited[getClientIp(r)] =
               IF startStage(env, r).trace.limiterOutcome = "none" THEN @ + 1 ELSE @,
           !.last = None]
    /\ UNCHANGED <<seedVars, loginVars, keyVars, validatorVars, gateVars, env, allowed_emails, first,
                   now, rl, rlCache>>

\* validateEmailLimiter.limit(key) answers from the cache or the service
Limit(d) ==
    /\ pc = "limit"
    /\ LET key == trace.limiterKey.key
           res == limit(rl, rlCache, key, now)
           outcome == IF res.success THEN "success" ELSE "exceeded"
       IN  /\ Become(afterLimit(env, email, trace, outcome, d))
           /\ rl' = res.store
           /\ rlCache' = res.cache
           /\ hist' = [hist EXCEPT
                  !.counted[key] = IF res.counted THEN Append(@, now) ELSE @,
                  !.last = [key |-> key, t |-> now, outcome |-> outcome,
                            answered |-> TRUE, before |-> hist.counted[key]]]
    /\ UNCHANGED <<seedVars, loginVars, keyVars, validatorVars, gateVars, env, allowed_emails, req, first, now>>

\* the service does not answer within the limiter's timeout: limit() lets
\* the request through; the service may still count or refuse it afterwards
LimitTimesOut(applied) ==
    /\ pc = "limit"
    /\ LET key == trace.limiterKey.key
           res == limit(rl, rlCache, key, now)
       IN  /\ Become(afterLimit(env, email, trace, "success", 0))
           /\ rl' = IF applied THEN res.store ELSE rl
           /\ rlCache' = IF applied THEN res.cache ELSE rlCache
           /\ hist' = [hist EXCEPT
                  !.counted[key] = IF applied /\ res.counted THEN Append(@, now) ELSE @,
                  !.last = [key |-> key, t |-> now, outcome |-> "success",
                            answered |-> FALSE, before |-> hist.counted[key]]]
    /\ UNCHANGED <<seedVars, loginVars, keyVars, validatorVars, gateVars, env, allowed_emails, req, first, now>>

\* validateEmailLimiter.limit(key) throws: the service was not reached, or
\* its answer was lost after it had counted the request
LimitThrows(applied) ==
    /\ pc = "limit"
    /\ LET key == trace.limiterKey.key
           res == limit(rl, rlCache, key, now)
           counts == applied /\ res.counted
       IN  /\ Become(afterLimit(env, email, trace, "error", 0))
           /\ rl' = IF counts THEN res.store ELSE rl
           /\ hist' = [hist EXCEPT
                  !.counted[key] = IF counts THEN Append(@, now) ELSE @,
                  !.last = [key |-> key, t |-> now, outcome |-> "error",
                            answered |-> FALSE, before |-> hist.counted[key]]]
    /\ UNCHANGED <<seedVars, loginVars, keyVars, validatorVars, gateVars, env, allowed_emails, req, first,
                   now, rlCache>>

\* the clock advances between two requests (only the limiter reads it);
\* counters two windows old expire, cache entries whose reset has passed no
\* longer block
Tick ==
    /\ pc = "idle"
    /\ hist # None
    /\ now < MaxTicks * TickMs
    /\ now' = now + TickMs
    /\ rl' = expired(rl, now')
    /\ rlCache' = [k \in DOMAIN rlCache |-> IF rlCache[k] >= now' THEN rlCache[k] ELSE 0]
    /\ hist' = [hist EXCEPT
           !.counted = [k \in DOMAIN hist.counted |->
               SelectSeq(hist.counted[k],
                         LAMBDA x : windowOf(x) >= windowOf(now') - 1)],
           !.unlimited = [k \in DOMAIN hist.unlimited |-> 0]]
    /\ UNCHANGED <<seedVars, loginVars, keyVars, validatorVars, gateVars, endpointVars>>

\* the process is replaced by a fresh one: the in-process cache is empty
ColdStart ==
    /\ pc = "idle"
    /\ rlCache # None
    /\ \E k \in DOMAIN rlCache : rlCache[k] # 0
    /\ rlCache' = [k \in DOMAIN rlCache |-> 0]
    /\ UNCHANGED <<seedVars, loginVars, keyVars, validatorVars, gateVars, endpointVars, now, rl, hist>>

\* as Finish, for a handler whose limiter calls are followed
Close ==
    /\ pc = "done"
    /\ pc' = "idle"
    /\ req' = None
    /\ email' = <<>>
    /\ resp' = None
    /\ trace' = EmptyTrace
    /\ hist' = [hist EXCEPT !.last = None]
    /\ UNCHANGED <<seedVars, loginVars, keyVars, validatorVars, gateVars, env, allowed_emails, first,
                   now, rl, rlCache>>

\* the sleep before a 429 ends
SleepDone ==
    /\ pc = "sleep"
    /\ Become(Done(email, TooManyRequests429, trace, "limiter"))
    /\ UNCHANGED <<seedVars, loginVars, keyVars, validatorVars, gateVars, limiterVars, env, allowed_emails, req, first>>

\* the store answers the query or throws
QueryReplies(o) ==
    /\ pc = "query"
    /\ o \in QueryOutcomes(allowed_emails)
    /\ Become(afterQuery(env, allowed_emails, email, trace, o))
    /\ UNCHANGED <<seedVars, loginVars, keyVars, validatorVars, gateVars, limiterVars, env, allowed_emails, req, first>>

\* route.ts 188-191: an exception outside the inner handlers. What is thrown
\* while the limiter is called or the handler sleeps is thrown inside the try
\* of route.ts 104 and handled there, so the outer handler is reached from
\* the store stage only
UnexpectedError ==
    /\ pc = "query"
    /\ Become(Done(email, ValidationFailed500, trace, "exception"))
    /\ UNCHANGED <<seedVars, loginVars, keyVars, validatorVars, gateVars, limiterVars, env, allowed_emails, req, first>>

\* the response has been sent; the handler is free again
Finish ==
    /\ pc = "done"
    /\ first = None
    /\ pc' = "idle"
    /\ req' = None
    /\ email' = <<>>
    /\ resp' = None
    /\ trace' = EmptyTrace
    /\ UNCHANGED <<seedVars, loginVars, keyVars, validatorVars, gateVars, limiterVars, env, allowed_emails, first>>

\* as Finish, keeping the finished exchange to compare the next one with
FinishFirst ==
    /\ pc = "done"
    /\ first = None
    /\ first' = [req |-> req, email |-> email, resp |-> resp, trace |-> trace]
    /\ pc' = "idle"
    /\ req' = None
    /\ email' = <<>>
    /\ resp' = None
    /\ trace' = EmptyTrace
    /\ UNCHANGED <<seedVars, loginVars, keyVars, validatorVars, gateVars, limiterVars, env, allowed_emails>>

(***************************************************************************)
(* Actions of the login page                                               *)
(***************************************************************************)
PageOpen == lpc \in {"idle", "fetch", "signup", "register", "signin"}

\* onChange of the email input: setEmail(e.target.value)
Type(v) ==
    /\ lpc = "idle" /\ step = "email" /\ ~isLoading
    /\ loginEmail # v
    /\ loginEmail' = v
    /\ UNCHANGED <<step, isLoading, cooldownUntil, error, lpc, pend, clock, lhist>>
    /\ UNCHANGED <<validatorVars, gateVars, endpointVars, limiterVars, keyVars, seedVars>>

\* handleEmailSubmit up to the fetch call (lines 27-52)
HandleEmailSubmit ==
    /\ lpc = "idle" /\ step = "email" /\ ~isLoading
    /\ LET v == emailSchema(Str(loginEmail))
       IN  IF ~v.success
           THEN /\ error' = Str(validatorErrorMessage(v))
                /\ isLoading' = FALSE
                /\ UNCHANGED <<lpc, pend>>
           ELSE /\ error' = Null
                /\ isLoading' = TRUE
                /\ lpc' = "fetch"
                /\ pend' = [validatedEmail |-> v.data]
    /\ UNCHANGED <<step, loginEmail, cooldownUntil, clock, lhist>>
    /\ UNCHANGED <<validatorVars, gateVars, endpointVars, limiterVars, keyVars, seedVars>>

\* handleEmailSubmit after the fetch call settled (lines 53-70)
FetchSettles(o) ==
    /\ lpc = "fetch"
    /\ lpc' = "idle"
    /\ pend' = None
    /\ isLoading' = FALSE
    /\ lhist' = [lhist EXCEPT
                   !.approved = IF o.kind = "response" /\ o.ok
                                THEN @ \cup {pend.validatedEmail} ELSE @]
    /\ IF o.kind = "error"
       THEN /\ error' = Str(ValidationFailedMessage)
            /\ UNCHANGED <<step, loginEmail>>
       ELSE IF ~responseOk(o)
       THEN /\ error' = Str(responseErrorMessage(o))
            /\ UNCHANGED <<step, loginEmail>>
       ELSE /\ loginEmail' = pend.validatedEmail
            /\ step' = "passkey"
            /\ UNCHANGED error
    /\ UNCHANGED <<cooldownUntil, clock>>
    /\ UNCHANGED <<validatorVars, gateVars, endpointVars, limiterVars, keyVars, seedVars>>

ChangeEmail_CancelsAction ==
    /\ PageOpen /\ step = "passkey"
    /\ step' = "email"
    /\ error' = Null
    /\ isLoading' = FALSE
    /\ lpc' = "idle"
    /\ pend' = None
    /\ UNCHANGED <<loginEmail, cooldownUntil, clock, lhist>>
    /\ UNCHANGED <<validatorVars, gateVars, endpointVars, limiterVars, keyVars, seedVars>>

\* the onClick of 'Change email' (lines 198-201)
ChangeEmail ==
    /\ PageOpen /\ step = "passkey"
    /\ step' = "email"
    /\ error' = Null
    /\ UNCHANGED <<loginEmail, isLoading, cooldownUntil, lpc, pend, clock, lhist>>
    /\ UNCHANGED <<validatorVars, gateVars, endpointVars, limiterVars, keyVars, seedVars>>

\* one step of the passkey action begins: its promise and its timer
Attempt(name, ms) ==
    /\ lpc' = name
    /\ pend' = [email |-> IF lpc = "idle" THEN loginEmail ELSE pend.email,
                deadline |-> clock + ms]

Started(name) == [name |-> name, outcome |-> [kind |-> "pending"]]

Settled(steps, outcome) == [steps EXCEPT ![Len(steps)].outcome = outcome]

\* handlePasskeyAuth up to the sign-up call (lines 73-98)
HandlePasskeyAuth ==
    /\ lpc = "idle" /\ step = "passkey" /\ ~isLoading
    /\ clock <= MaxLoginTicks * LoginTickMs
    /\ IF inCooldown(cooldownUntil, clock)
       THEN /\ ~lhist.ignored
            /\ lhist' = [lhist EXCEPT !.ignored = TRUE]
            /\ UNCHANGED <<isLoading, error, lpc, pend>>
       ELSE /\ isLoading' = TRUE
            /\ error' = Null
            /\ Attempt("signup", SignUpTimeoutMs)
            /\ lhist' = [lhist EXCEPT !.ignored = FALSE,
                                      !.steps = <<Started("signUp")>>,
                                      !.failedAt = Null]
    /\ UNCHANGED <<step, loginEmail, cooldownUntil, clock>>
    /\ UNCHANGED <<validatorVars, gateVars, endpointVars, limiterVars, keyVars, seedVars>>

\* lines 98-118: whatever sign-up did, the inner catch swallows it and
\* passkey registration is called
AfterSignUp(o) ==
    /\ lpc = "signup"
    /\ Attempt("register", RegistrationTimeoutMs)
    /\ lhist' = [lhist EXCEPT !.steps =
                    Append(Settled(@, o), Started("addPasskey"))]
    /\ UNCHANGED <<step, loginEmail, isLoading, cooldownUntil, error, clock>>
    /\ UNCHANGED <<validatorVars, gateVars, endpointVars, limiterVars, keyVars, seedVars>>

\* the 3.5-second timer wins the race
SignUpTimeout ==
    /\ lpc = "signup" /\ timerFired(pend.deadline, clock)
    /\ AfterSignUp([kind |-> "timeout"])

\* lines 119-125: success navigates; anything else calls passkey sign-in
AfterRegistration(o) ==
    /\ lpc = "register"
    /\ IF o.kind = "resolved" /\ ~registrationThrows(o.result)
       THEN /\ lpc' = "navigated"
            /\ pend' = None
            /\ lhist' = [lhist EXCEPT !.steps = Settled(@, o)]
       ELSE /\ Attempt("signin", SignInTimeoutMs)
            /\ lhist' = [lhist EXCEPT !.steps =
                            Append(Settled(@, o), Started("passkeySignIn"))]
    /\ UNCHANGED <<step, loginEmail, isLoading, cooldownUntil, error, clock>>
    /\ UNCHANGED <<validatorVars, gateVars, endpointVars, limiterVars, keyVars, seedVars>>

\* the 15-second timer wins the race
RegistrationTimeout ==
    /\ lpc = "register" /\ timerFired(pend.deadline, clock)
    /\ AfterRegistration([kind |-> "timeout"])

\* lines 125-145: a sign-in that resolves navigates; one that throws reaches
\* the outer catch
AfterSignIn(o) ==
    /\ lpc = "signin"
    /\ pend' = None
    /\ IF o.kind = "resolved"
       THEN /\ lpc' = "navigated"
            /\ lhist' = [lhist EXCEPT !.steps = Settled(@, o)]
            /\ UNCHANGED <<isLoading, cooldownUntil, error>>
       ELSE LET f == passkeyFailure(o.err, clock, cooldownUntil)
            IN  /\ lpc' = "idle"
                /\ error' = f.error
                /\ cooldownUntil' = f.cooldownUntil
                /\ isLoading' = FALSE
                /\ lhist' = [lhist EXCEPT
                               !.steps = << >>,
                               !.failedAt = [type |-> "number", val |-> clock]]
    /\ UNCHANGED <<step, loginEmail, clock>>
    /\ UNCHANGED <<validatorVars, gateVars, endpointVars, limiterVars, keyVars, seedVars>>

\* the 12-second timer wins the race: withTimeout rejects
SignInTimeout ==
    /\ lpc = "signin" /\ timerFired(pend.deadline, clock)
    /\ AfterSignIn([kind |-> "timeout",
                    err |-> [message |-> Str(SignInTimeoutMessage)]])

\* time passes: up to the moment the pending timer fires, or by one step
\* when no timer is pending
LoginTick ==
    /\ PageOpen
    /\ IF lpc \in {"signup", "register", "signin"}
       THEN /\ clock < pend.deadline
            /\ clock' = pend.deadline
       ELSE /\ clock < MaxLoginTicks * LoginTickMs
            /\ clock' = clock + LoginTickMs
    /\ UNCHANGED <<step, loginEmail, isLoading, cooldownUntil, error, lpc, pend, lhist>>
    /\ UNCHANGED <<validatorVars, gateVars, endpointVars, limiterVars, keyVars, seedVars>>

(***************************************************************************)
(* Actions of the seeding script and of the writers of the "user" table    *)
(***************************************************************************)
SeedAt(p) == seedRun # None /\ seedRun.pc = p

SeedGoes(p) == seedRun' = [seedRun EXCEPT !.pc = p]

\* node scripts/setup-allowed-emails.js [emails]: lines 237-247
SeedStart(argv, e) ==
    /\ seedRun = None
    /\ shist.runs < MaxSeedRuns
    /\ seedRun' = [pc |-> "createTable", argv |-> argv, env |-> e,
                   emails |-> seedEmails(argv, e),
                   before |-> allowed_emails.rows,
                   repeated |-> shist.completed = [argv |-> argv, env |-> e]]
    /\ shist' = [shist EXCEPT !.runs = @ + 1]
    /\ UNCHANGED <<allowed_emails, userTable, triggers>>
    /\ UNCHANGED <<validatorVars, gateVars, env, pc, req, email, resp, trace, first,
                   limiterVars, keyVars, loginVars>>

\* step 1, line 250
SeedCreateTable ==
    /\ SeedAt("createTable")
    /\ allowed_emails' = createTableIfNotExists(allowed_emails)
    /\ SeedGoes(IF Len(seedRun.emails) > 0 THEN "upsert" ELSE "function")
    /\ UNCHANGED <<userTable, triggers, shist>>
    /\ UNCHANGED <<validatorVars, gateVars, env, pc, req, email, resp, trace, first,
                   limiterVars, keyVars, loginVars>>

\* step 2, lines 253-257: one turn of the loop
SeedUpsert ==
    /\ SeedAt("upsert")
    /\ allowed_emails' =
          insertAllowedEmail(allowed_emails, seedNormalize(Head(seedRun.emails)))
    /\ seedRun' = [seedRun EXCEPT
                     !.emails = Tail(@),
                     !.pc = IF Len(seedRun.emails) > 1 THEN "upsert" ELSE "function"]
    /\ UNCHANGED <<userTable, triggers, shist>>
    /\ UNCHANGED <<validatorVars, gateVars, env, pc, req, email, resp, trace, first,
                   limiterVars, keyVars, loginVars>>

\* step 3, lines 264-274: CREATE OR REPLACE FUNCTION check_allowed_email()
SeedFunction ==
    /\ SeedAt("function")
    /\ triggers' = [triggers EXCEPT !.function = TRUE]
    /\ SeedGoes("dropInsert")
    /\ UNCHANGED <<allowed_emails, userTable, shist>>
    /\ UNCHANGED <<validatorVars, gateVars, env, pc, req, email, resp, trace, first,
                   limiterVars, keyVars, loginVars>>

\* line 277: DROP TRIGGER IF EXISTS enforce_allowed_email ON "user"
SeedDropInsertTrigger ==
    /\ SeedAt("dropInsert")
    /\ triggers' = [triggers EXCEPT !.onInsert = FALSE]
    /\ SeedGoes("dropUpdate")
    /\ UNCHANGED <<allowed_emails, userTable, shist>>
    /\ UNCHANGED <<validatorVars, gateVars, env, pc, req, email, resp, trace, first,
                   limiterVars, keyVars, loginVars>>

\* line 278: DROP TRIGGER IF EXISTS enforce_allowed_email_on_update ON "user"
SeedDropUpdateTrigger ==
    /\ SeedAt("dropUpdate")
    /\ triggers' = [triggers EXCEPT !.onUpdate = FALSE]
    /\ SeedGoes("createInsert")
    /\ UNCHANGED <<allowed_emails, userTable, shist>>
    /\ UNCHANGED <<validatorVars, gateVars, env, pc, req, email, resp, trace, first,
                   limiterVars, keyVars, loginVars>>

\* lines 279-284: CREATE TRIGGER enforce_allowed_email BEFORE INSERT
SeedCreateInsertTrigger ==
    /\ SeedAt("createInsert")
    /\ triggers' = [triggers EXCEPT !.onInsert = TRUE]
    /\ SeedGoes("createUpdate")
    /\ UNCHANGED <<allowed_emails, userTable, shist>>
    /\ UNCHANGED <<validatorVars, gateVars, env, pc, req, email, resp, trace, first,
                   limiterVars, keyVars, loginVars>>

\* lines 285-298: CREATE TRIGGER enforce_allowed_email_on_update, then the
\* run ends
SeedCreateUpdateTrigger ==
    /\ SeedAt("createUpdate")
    /\ triggers' = [triggers EXCEPT !.onUpdate = TRUE]
    /\ seedRun' = None
    /\ shist' = [shist EXCEPT
                   !.installed = TRUE,
                   !.completed = [argv |-> seedRun.argv, env |-> seedRun.env]]
    /\ UNCHANGED <<allowed_emails, userTable>>
    /\ UNCHANGED <<validatorVars, gateVars, env, pc, req, email, resp, trace, first,
                   limiterVars, keyVars, loginVars>>

\* a statement is rejected (the connection is lost, say): the catch at line
\* 295 logs the error and the run ends where it was
SeedFails ==
    /\ seedRun # None
    /\ seedRun' = None
    /\ UNCHANGED <<allowed_emails, userTable, triggers, shist>>
    /\ UNCHANGED <<validatorVars, gateVars, env, pc, req, email, resp, trace, first,
                   limiterVars, keyVars, loginVars>>

\* some client of the database runs INSERT INTO "user"
InsertUser(e) ==
    /\ \E id \in 1..MaxUsers :
          /\ \A r \in userTable : r.id # id
          /\ \A j \in 1..(id - 1) : \E r \in userTable : r.id = j
          /\ ~insertRejected(triggers, allowed_emails, e)
          /\ userTable' = userTable \cup {[id |-> id, email |-> e]}
    /\ UNCHANGED <<allowed_emails, seedRun, triggers, shist>>
    /\ UNCHANGED <<validatorVars, gateVars, env, pc, req, email, resp, trace, first,
                   limiterVars, keyVars, loginVars>>

\* some client of the database runs UPDATE "user" SET email = ...
UpdateUserEmail(e) ==
    /\ \E r \in userTable :
          /\ r.email # e
          /\ ~updateRejected(triggers, allowed_emails, r.email, e)
          /\ userTable' = (userTable \ {r}) \cup {[id |-> r.id, email |-> e]}
    /\ UNCHANGED <<allowed_emails, seedRun, triggers, shist>>
    /\ UNCHANGED <<validatorVars, gateVars, env, pc, req, email, resp, trace, first,
                   limiterVars, keyVars, loginVars>>

(***************************************************************************)
(* Specifications                                                          *)
(***************************************************************************)
\* one call of getClientIp(req)
GetClientIp ==
    /\ ipRequest # None /\ ipKey = None
    /\ ipKey' = [key |-> getClientIp(ipRequest)]
    /\ UNCHANGED <<seedVars, loginVars, ipRequest, validatorVars, gateVars, endpointVars, limiterVars>>

IdleValidator == vInput = None /\ vResult = None /\ vPrev = None
IdleGate == gRequest = None /\ gResponse = None /\ gHops = 0
IdleEndpoint ==
    /\ pc = "idle" /\ req = None /\ email = <<>> /\ resp = None
    /\ trace = EmptyTrace /\ first = None
IdleLimiter == now = 0 /\ rl = None /\ rlCache = None /\ hist = None
IdleKey == ipRequest = None /\ ipKey = None
IdleLogin ==
    /\ step = None /\ loginEmail = None /\ isLoading = None
    /\ cooldownUntil = None /\ error = None /\ lpc = None /\ pend = None
    /\ clock = 0 /\ lhist = None
IdleSeed ==
    seedRun = None /\ userTable = None /\ triggers = None /\ shist = None

InitValidator ==
    /\ vInput \in ValidatorInputs /\ vResult = None /\ vPrev = None
    /\ IdleGate /\ IdleEndpoint /\ IdleLimiter /\ IdleKey /\ IdleLogin /\ IdleSeed
    /\ env = None /\ allowed_emails = None

NextValidator == SafeParse

SpecValidator == InitValidator /\ [][NextValidator]_vars

NextValidatorTwice ==
    \/ SafeParse
    \/ /\ vResult # None
       /\ \E y \in Resubmissions(vInput, vResult) : Resubmit(y)

SpecValidatorTwice == InitValidator /\ [][NextValidatorTwice]_vars

InitGate ==
    /\ gRequest \in GateRequests /\ gResponse = None /\ gHops = 0
    /\ IdleValidator /\ IdleEndpoint /\ IdleLimiter /\ IdleKey /\ IdleLogin /\ IdleSeed
    /\ env = None /\ allowed_emails = None

NextGate == Proxy

SpecGate == InitGate /\ [][NextGate]_vars

NextGateFollow == Proxy \/ FollowRedirect

\* a client that follows redirects: every request it sends is evaluated, and
\* every redirect it is given is followed
SpecGateFollow ==
    /\ InitGate /\ [][NextGateFollow]_vars
    /\ WF_vars(Proxy)
    /\ WF_vars(FollowRedirect)

InitEndpoint ==
    /\ IdleValidator /\ IdleGate /\ IdleEndpoint /\ IdleLimiter /\ IdleKey /\ IdleLogin /\ IdleSeed
    /\ env \in EnvConfigs
    /\ allowed_emails \in Tables

NextEndpoint ==
    \/ \E r \in Requests : Post(r)
    \/ \E o \in LimiterOutcomes, d \in SleepDelays : LimiterReplies(o, d)
    \/ SleepDone
    \/ \E o \in QueryOutcomes(allowed_emails) : QueryReplies(o)
    \/ UnexpectedError
    \/ Finish

SpecEndpoint == InitEndpoint /\ [][NextEndpoint]_vars

InitPair ==
    /\ IdleValidator /\ IdleGate /\ IdleEndpoint /\ IdleLimiter /\ IdleKey /\ IdleLogin /\ IdleSeed
    /\ env \in PairConfigs
    /\ allowed_emails \in Tables

NextPair ==
    \/ \E r \in PairRequests : Post(r)
    \/ \E o \in QueryOutcomes(allowed_emails) : QueryReplies(o)
    \/ UnexpectedError
    \/ FinishFirst

SpecPair == InitPair /\ [][NextPair]_vars

InitLimiter ==
    /\ IdleValidator /\ IdleGate /\ IdleEndpoint /\ IdleKey /\ IdleLogin /\ IdleSeed
    /\ env \in LimiterConfigs
    /\ allowed_emails \in LimiterTables
    /\ now = 0
    /\ rl = [k \in LimiterKeys |-> << >>]
    /\ rlCache = [k \in LimiterKeys |-> 0]
    /\ hist = [counted |-> [k \in LimiterKeys |-> << >>],
               unlimited |-> [k \in LimiterKeys |-> 0],
               last |-> None]

NextLimiter ==
    \/ \E r \in LimiterRequests : Arrive(r)
    \/ \E d \in SleepDelays : Limit(d)
    \/ \E applied \in BOOLEAN : LimitThrows(applied)
    \/ \E applied \in BOOLEAN : LimitTimesOut(applied)
    \/ Tick
    \/ ColdStart
    \/ SleepDone
    \/ \E o \in QueryOutcomes(allowed_emails) : QueryReplies(o)
    \/ UnexpectedError
    \/ Close

SpecLimiter == InitLimiter /\ [][NextLimiter]_vars

InitClientIp ==
    /\ IdleValidator /\ IdleGate /\ IdleEndpoint /\ IdleLimiter
    /\ env = None /\ allowed_emails = None
    /\ ipRequest \in HeaderRequests /\ ipKey = None
    /\ IdleLogin /\ IdleSeed

NextClientIp == GetClientIp

SpecClientIp == InitClientIp /\ [][NextClientIp]_vars

\* the page after mounting; the effect of lines 18-23 has run
InitLogin ==
    /\ IdleValidator /\ IdleGate /\ IdleEndpoint /\ IdleLimiter /\ IdleKey
    /\ IdleSeed
    /\ env = None /\ allowed_emails = None
    /\ step = "email"
    /\ loginEmail = << >>
    /\ isLoading = FALSE
    /\ cooldownUntil = Null
    /\ error \in {Null, Str(AccessDeniedMessage)}
    /\ lpc = "idle"
    /\ pend = None
    /\ clock = 0
    /\ lhist = [approved |-> {}, steps |-> << >>, failedAt |-> Null,
                ignored |-> FALSE]

NextLogin ==
    \/ \E v \in TypedEmails : Type(v)
    \/ HandleEmailSubmit
    \/ \E o \in FetchOutcomes : FetchSettles(o)
    \/ ChangeEmail
    \/ HandlePasskeyAuth
    \/ \E o \in SignUpOutcomes : AfterSignUp(o)
    \/ SignUpTimeout
    \/ \E o \in RegistrationOutcomes : AfterRegistration(o)
    \/ RegistrationTimeout
    \/ \E o \in SignInOutcomes : AfterSignIn(o)
    \/ SignInTimeout
    \/ LoginTick

SpecLogin == InitLogin /\ [][NextLogin]_vars

\* the event loop runs: time passes and a timer whose time is up fires,
\* while nothing obliges a call to the session authority to return
SpecLoginLive ==
    /\ InitLogin /\ [][NextLogin]_vars
    /\ WF_vars(LoginTick)
    /\ WF_vars(SignUpTimeout)
    /\ WF_vars(RegistrationTimeout)
    /\ WF_vars(SignInTimeout)

\* a fresh database: the application's migration has created "user", and
\* the seeding script has not run yet
InitSeed ==
    /\ IdleValidator /\ IdleGate /\ IdleLimiter /\ IdleKey /\ IdleLogin
    /\ env = None /\ pc = "idle" /\ req = None /\ email = <<>> /\ resp = None
    /\ trace = EmptyTrace /\ first = None
    /\ allowed_emails = [exists |-> FALSE, rows |-> {}]
    /\ seedRun = None
    /\ userTable = {}
    /\ triggers = NoTriggers
    /\ shist = [runs |-> 0, installed |-> FALSE, completed |-> None]

NextSeed ==
    \/ \E argv \in SeedArguments, e \in SeedEnvs : SeedStart(argv, e)
    \/ SeedCreateTable
    \/ SeedUpsert
    \/ SeedFunction
    \/ SeedDropInsertTrigger
    \/ SeedDropUpdateTrigger
    \/ SeedCreateInsertTrigger
    \/ SeedCreateUpdateTrigger
    \/ SeedFails
    \/ \E e \in UserEmails : InsertUser(e)
    \/ \E e \in UserEmails : UpdateUserEmail(e)

SpecSeed == InitSeed /\ [][NextSeed]_vars

Spec == SpecEndpoint

(***************************************************************************)
(* Properties of the gate                                                  *)
(***************************************************************************)
GateSession == gRequest.cookies[SessionCookie]
GatePassed == gResponse = NextResponseNext
GateRedirected ==
    /\ gResponse # None
    /\ gResponse.kind = "redirect"
    /\ gResponse.status = 307
    /\ gResponse.location.pathname = LoginPath

\* C2: on a path with no public prefix the gate passes exactly when the session
\* cookie is present and its value has between 10 and 500 characters; otherwise
\* it redirects to /login
C2_ProtectedPathRule ==
    (gResponse # None /\ ~isPublicRoute(gRequest.pathname)) =>
        /\ GatePassed <=>
              (GateSession.present /\ Len(GateSession.value) >= 10
                                   /\ Len(GateSession.value) <= 500)
        /\ ~GatePassed => GateRedirected

C2_Witness ==
    /\ gResponse # None
    /\ gRequest.pathname = <<"/">>
    /\ GateSession.present
    /\ Len(GateSession.value) = 10
    /\ GatePassed

\* C3: a path that starts with /login, /unauthorized, /api/auth or
\* /api/validate-email passes whatever the session cookie is
C3_PublicPrefixPasses ==
    (/\ gResponse # None
     /\ \E prefix \in {LoginPath, UnauthorizedPath, ApiAuthPath, ValidateEmailPath} :
            startsWith(gRequest.pathname, prefix))
        => GatePassed

C3_Witness ==
    /\ GatePassed
    /\ gRequest.pathname = ApiAuthPath \o <<"/","s","e","s","s","i","o","n">>
    /\ ~GateSession.present

(***************************************************************************)
(* Properties of the endpoint                                              *)
(***************************************************************************)
Production == env.NODE_ENV = "production"

\* the entries of the configured comma-separated list, trimmed and lowercased
ConfiguredList == Range(parseAllowedEmails(env.ALLOWED_EMAILS))

\* the rows of the store that equal the normalized email, ignoring case
MatchingRows == {row \in allowed_emails.rows : toLowerCase(row) = toLowerCase(email)}

QueryAnswered == trace.queryOutcome.kind = "rows"
QueryFailed == trace.queryOutcome.kind = "error"

\* error code 42P01, or a 'relation ... allowed_emails ... does not exist' message
TableMissingSignature(err) ==
    \/ (err.type = "object" /\ err.code = Str("42P01"))
    \/ (err.type = "object" /\ err.message.type = "string"
        /\ err.message.val \in RelationMissingMessages)

\* C1: a 200 is given only to an email that is in the configured list, when the
\* list decided, or that matched a row of the store; no error path gives 200
C1_OkOnlyIfAllowlisted ==
    (pc = "done" /\ resp.status = 200) =>
        /\ resp = Ok200
        /\ \/ QueryAnswered /\ MatchingRows # {}
           \/ ~QueryAnswered /\ email \in ConfiguredList
        /\ trace.decidedBy \in {"fast", "store", "fallback"}

C1_Witness ==
    /\ pc = "done"
    /\ resp.status = 200
    /\ QueryFailed
    /\ Production
    /\ email \in ConfiguredList

\* C4: in production a store error without the table-missing signature is
\* answered 500 'Validation failed', whatever the configured list holds
C4_ProductionStoreErrorIs500 ==
    (/\ pc = "done"
     /\ Production
     /\ QueryFailed
     /\ ~TableMissingSignature(trace.queryOutcome.err))
        => resp = ValidationFailed500

C4_Witness ==
    /\ pc = "done"
    /\ Production
    /\ QueryFailed
    /\ trace.queryOutcome.err = ErrConnectionRefused
    /\ email \in ConfiguredList
    /\ resp.status = 500
    /\ resp.body = [message |-> "Validation failed"]

C6_TableMissingUsesList ==
    (pc = "done" /\ QueryFailed /\ TableMissingSignature(trace.queryOutcome.err)) =>
        resp = IF email \in ConfiguredList THEN Ok200 ELSE InvalidCredentials403

C6_Witness ==
    /\ pc = "done"
    /\ Production
    /\ QueryFailed
    /\ trace.queryOutcome.err = ErrRelationMessage
    /\ resp = Ok200

\* C7: when the query completes without error the answer is 200 exactly when a
\* row matches the normalized email, and 403 'Invalid credentials' otherwise
C7_QueryDecides ==
    (pc = "done" /\ QueryAnswered) =>
        /\ resp.status = 200 <=> MatchingRows # {}
        /\ resp.status # 200 => resp = InvalidCredentials403
        /\ resp.status = 200 => resp.body = [ok |-> TRUE]

C7_Witness ==
    /\ pc = "done"
    /\ QueryAnswered
    /\ resp.status = 200
    /\ email \notin allowed_emails.rows
    /\ MatchingRows # {}

\* C8: outside production a non-empty configured list decides every valid
\* request and the store is never asked; in production the list never decides
\* before the store has been asked
C8_FastPathFrame ==
    /\ (~Production /\ ConfiguredList # {}) =>
          /\ pc \in {"idle", "done"}
          /\ ~trace.storeQueried
          /\ (pc = "done" /\ resp.status # 400) =>
                resp = IF email \in ConfiguredList THEN Ok200
                       ELSE InvalidCredentials403
    /\ (Production /\ pc = "done" /\ resp.status = 200) =>
          /\ trace.storeQueried
          /\ \/ QueryAnswered
             \/ QueryFailed /\ TableMissingSignature(trace.queryOutcome.err)

C8_Witness ==
    /\ pc = "done"
    /\ ~Production
    /\ email \notin ConfiguredList
    /\ MatchingRows # {}
    /\ resp = InvalidCredentials403
    /\ ~trace.storeQueried

\* two raw emails differ at most in letter case and surrounding whitespace
SameUpToCaseAndSpace(x, y) == toLowerCase(trim(x)) = toLowerCase(trim(y))

RawEmail(r) == r.body.email.val

\* the pieces of the configured list as written, before any normalization
ConfiguredPieces == Range(split(OrEmpty(env.ALLOWED_EMAILS), ","))

\* C9: two requests whose emails differ only in case or surrounding whitespace
\* get the same status and body under the same configuration, store contents
\* and store answers; and the configured list is compared entry by entry after
\* trimming and lowercasing each entry
C9_CaseAndSpaceInsensitive ==
    /\ (/\ pc = "done"
        /\ first # None
        /\ SameUpToCaseAndSpace(RawEmail(first.req), RawEmail(req))
        /\ first.trace.queryOutcome = trace.queryOutcome)
          => /\ resp.status = first.resp.status
             /\ resp.body = first.resp.body
    /\ (pc = "done" /\ trace.decidedBy \in {"fast", "fallback"}) =>
          (resp.status = 200 <=>
              \E piece \in ConfiguredPieces : toLowerCase(trim(piece)) = email)

C9_Witness ==
    /\ pc = "done"
    /\ first # None
    /\ RawEmail(first.req) # RawEmail(req)
    /\ SameUpToCaseAndSpace(RawEmail(first.req), RawEmail(req))
    /\ first.trace.queryOutcome = trace.queryOutcome
    /\ QueryAnswered
    /\ resp.status = 200
    /\ first.resp.status = 200

(***************************************************************************)
(* Properties of the validator                                             *)
(***************************************************************************)
\* the trimmed, lowercased form of a string input
Normalized == toLowerCase(trim(vInput.val))

AtSigns(s) == {i \in 1..Len(s) : s[i] = "@"}

\* local@domain.tld: one or more characters that are neither whitespace nor '@',
\* then '@', then such characters, a '.', and such characters again
SimpleShape(s) ==
    /\ \A i \in 1..Len(s) : s[i] \notin WhiteSpace
    /\ Cardinality(AtSigns(s)) = 1
    /\ LET at == CHOOSE i \in AtSigns(s) : TRUE
       IN  /\ at > 1
           /\ \E dot \in (at + 2)..(Len(s) - 1) : s[dot] = "."

\* what the library's pattern asks beyond the simple shape: the character sets
\* of the local part and of the domain, no leading dot, no two dots in a row,
\* a local part that ends in neither '.' nor an apostrophe, domain labels
\* that start with a letter or digit, and a top-level label of two or more
\* letters
StrictShape(s) ==
    LET at == CHOOSE i \in AtSigns(s) : TRUE
        dots == {i \in (at + 1)..Len(s) : s[i] = "."}
        lastDot == CHOOSE i \in dots : \A j \in dots : j <= i
    IN  /\ \A i \in 1..(at - 1) : IsAlnum(s[i]) \/ s[i] \in {"_", "'", "+", "-", "."}
        /\ s[1] # "."
        /\ s[at - 1] \notin {".", "'"}
        /\ \A i \in 1..(Len(s) - 1) : ~(s[i] = "." /\ s[i + 1] = ".")
        /\ \A i \in (at + 1)..Len(s) : IsAlnum(s[i]) \/ s[i] \in {"-", "."}
        /\ \A i \in {at} \cup dots : i < Len(s) /\ IsAlnum(s[i + 1])
        /\ Len(s) - lastDot >= 2
        /\ \A i \in (lastDot + 1)..Len(s) : IsLetter(s[i])

\* C10 as claimed: the validator succeeds exactly on the strings whose
\* normalized form has 1 to 254 characters and the shape local@domain.tld
C10_SimpleShapeIff ==
    vResult # None =>
        (vResult.success <=>
            /\ vInput.type = "string"
            /\ Len(Normalized) >= 1
            /\ Len(Normalized) <= 254
            /\ SimpleShape(Normalized))

\* C10 amended: the validator succeeds exactly on the strings whose normalized
\* form has 1 to 254 characters, has the shape local@domain.tld and also meets
\* the stricter rules of the library's email pattern; so success implies the
\* simple shape, but not the other way round
C10_StrictShapeIff ==
    vResult # None =>
        /\ vResult.success <=>
              /\ vInput.type = "string"
              /\ Len(Normalized) >= 1
              /\ Len(Normalized) <= 254
              /\ SimpleShape(Normalized)
              /\ StrictShape(Normalized)
        /\ vResult.success =>
              /\ Len(Normalized) \in 1..254
              /\ SimpleShape(Normalized)

C10_Witness ==
    /\ vResult # None
    /\ vResult.success
    /\ Len(vResult.data) = 254
    /\ Len(vInput.val) > 254

\* the input is a string with nothing but whitespace in it
EmptyAfterTrim ==
    /\ vInput.type = "string"
    /\ \A i \in 1..Len(vInput.val) : vInput.val[i] \in WhiteSpace

C12_LengthRuleSimpleShape ==
    (vResult # None /\ vInput.type = "string" /\ SimpleShape(Normalized)) =>
        /\ Len(Normalized) <= 254 => vResult.success
        /\ Len(Normalized) > 254 =>
              /\ ~vResult.success
              /\ \A i \in 1..Len(vResult.issues) : vResult.issues[i].kind = "TooLong"

\* C12 amended: a string whose normalized form matches the library's email
\* pattern succeeds when that form has at most 254 characters, whatever the
\* length of the input before trimming, and fails with the single failure
\* TooLong when it has more
C12_LengthRule ==
    (/\ vResult # None /\ vInput.type = "string"
     /\ SimpleShape(Normalized) /\ StrictShape(Normalized)) =>
        /\ Len(Normalized) <= 254 => vResult.success
        /\ Len(Normalized) > 254 =>
              /\ ~vResult.success
              /\ Len(vResult.issues) = 1
              /\ vResult.issues[1].kind = "TooLong"

C12_Witness ==
    /\ vResult # None
    /\ vInput.type = "string"
    /\ SimpleShape(Normalized) /\ StrictShape(Normalized)
    /\ Len(Normalized) = 255
    /\ ~vResult.success

\* v is s without its leading and trailing whitespace, every character
\* lowercased
IsTrimmedLowercased(v, s) ==
    /\ v # <<>> => v[1] \notin WhiteSpace /\ v[Len(v)] \notin WhiteSpace
    /\ \E i \in 1..(Len(s) + 1) :
          LET j == i + Len(v) - 1
          IN  /\ j <= Len(s)
              /\ \A k \in 1..Len(s) : (k < i \/ k > j) => s[k] \in WhiteSpace
              /\ \A k \in 1..Len(v) : v[k] = LowerChar(s[i + k - 1])

\* the value validated now is the earlier one in capitals, with whitespace
\* around it
RespelledInput ==
    /\ vPrev # None
    /\ vPrev.input.type = "string"
    /\ vInput = Str(Decorated(vPrev.input.val))

\* C13: a successful validation returns the input trimmed and lowercased, and
\* typing an address in capitals or with whitespace around it changes
\* nothing in the result: same success, same value, same failures
C13_NormalizedBeforeChecks ==
    /\ (vResult # None /\ vResult.success) =>
            IsTrimmedLowercased(vResult.data, vInput.val)
    /\ (vResult # None /\ RespelledInput) => vResult = vPrev.result

C13_Witness ==
    /\ vResult # None
    /\ RespelledInput
    /\ vResult.success
    /\ vPrev.input.val # vResult.data

\* the value validated now is the value the earlier validation returned
OwnOutputAgain ==
    /\ vPrev # None
    /\ vPrev.result.success
    /\ vInput = Str(vPrev.result.data)

\* C14: validating the value of a successful validation succeeds and returns
\* that value unchanged
C14_Idempotent ==
    (vResult # None /\ OwnOutputAgain) =>
        /\ vResult.success
        /\ vResult.data = vPrev.result.data

C14_Witness ==
    /\ vResult # None
    /\ OwnOutputAgain
    /\ vPrev.input.val # vPrev.result.data
    /\ vResult.success

(***************************************************************************)
(* Properties of the endpoint: input validation, headers, the limiter      *)
(***************************************************************************)
\* the body is an object whose email is a string the validator accepts
BodyValid(r) ==
    /\ r.body.type = "object"
    /\ r.body.email.type = "string"
    /\ LET n == toLowerCase(trim(r.body.email.val))
       IN  /\ Len(n) >= 1 /\ Len(n) <= 254
           /\ SimpleShape(n) /\ StrictShape(n)

\* C15: a request whose body is not JSON, has no email, has an email that is
\* not a string or that fails the format or length rule is answered 400
\* {message: 'Invalid email'}, the same body in every environment and for
\* every kind of failure, before anything else is looked at
C15_InvalidInputIs400 ==
    (req # None /\ ~BodyValid(req)) =>
        /\ pc = "done"
        /\ resp.status = 400
        /\ resp.body = [message |-> "Invalid email"]
        /\ trace.limiterOutcome = "none" /\ ~trace.storeQueried

C15_Witness ==
    /\ req # None
    /\ ~BodyValid(req)
    /\ req.body.type = "object" /\ req.body.email.type = "string"
    /\ ~Production /\ fastPathTaken(env)
    /\ resp.status = 400

\* C16: every response, whatever its status and whichever return produced
\* it, carries the three security headers
C16_SecurityHeaders ==
    resp # None =>
        /\ {"X-Content-Type-Options", "X-Frame-Options", "Cache-Control"}
               \subseteq DOMAIN resp.headers
        /\ resp.headers["X-Content-Type-Options"] = "nosniff"
        /\ resp.headers["X-Frame-Options"] = "DENY"
        /\ resp.headers["Cache-Control"] = "no-store, no-cache, must-revalidate, private"

C16_Witness ==
    /\ pc = "done"
    /\ trace.decidedBy = "exception"
    /\ resp.status = 500
    /\ "Cache-Control" \in DOMAIN resp.headers

\* C18: a 429 {message: 'Too many requests'} is sent only after the limiter
\* reported the quota exceeded and the handler has slept 200 to 500 ms; while
\* it sleeps nothing has been sent, and no other response is delayed
C18_DelayBefore429 ==
    /\ (resp # None /\ resp.status = 429) =>
          /\ trace.limiterOutcome = "exceeded"
          /\ trace.delay >= 200 /\ trace.delay <= 500
          /\ resp.body = [message |-> "Too many requests"]
    /\ trace.limiterOutcome = "exceeded" =>
          \/ pc = "sleep" /\ resp = None /\ trace.delay >= 200
          \/ pc = "done" /\ resp.status = 429
    /\ (resp # None /\ resp.status # 429) => trace.delay = 0

C18_Witness ==
    /\ pc = "done"
    /\ resp.status = 429
    /\ trace.delay = 499

\* the handler went on to the allowlist decision: the connection string was
\* checked and, when it is set, the store was queried; nothing was delayed
WentOnToAllowlist ==
    /\ trace.delay = 0
    /\ IF Truthy(env.DATABASE_URL)
       THEN /\ trace.storeQueried
            /\ \/ pc = "query"
               \/ /\ pc = "done"
                  /\ trace.decidedBy \in {"store", "fallback", "storeError", "exception"}
       ELSE /\ pc = "done"
            /\ resp.status = 500
            /\ resp.body = [message |-> "Server misconfiguration"]

\* C19: when the call to the counter service throws, production answers 500
\* {message: 'Validation failed'} without querying the store, and outside
\* production the handler goes on to the allowlist decision just as it does
\* after the limiter allowed the request
C19_LimiterErrorHandling ==
    /\ (trace.limiterOutcome = "error" /\ Production) =>
          /\ pc = "done"
          /\ resp.status = 500
          /\ resp.body = [message |-> "Validation failed"]
          /\ ~trace.storeQueried
    /\ (trace.limiterOutcome = "error" /\ ~Production) => WentOnToAllowlist
    /\ trace.limiterOutcome = "success" => WentOnToAllowlist

C19_Witness ==
    /\ trace.limiterOutcome = "error"
    /\ ~Production
    /\ pc = "done"
    /\ resp.status = 200

(***************************************************************************)
(* Properties of the limiter                                               *)
(***************************************************************************)
\* the limiter has been called for the request and has answered
LimiterAnswered == hist # None /\ hist.last # None /\ hist.last.answered

\* requests of the key counted before this call less than 10 seconds ago
CountedInLast10s ==
    Cardinality({i \in 1..Len(hist.last.before) :
                    hist.last.before[i] > hist.last.t - WindowMs})

\* the same, with the requests counted exactly 10 seconds ago
CountedUpTo10sAgo ==
    Cardinality({i \in 1..Len(hist.last.before) :
                    hist.last.before[i] >= hist.last.t - WindowMs})

\* requests of the key counted before this call in an aligned window
CountedInWindow(w) ==
    Cardinality({i \in 1..Len(hist.last.before) :
                    windowOf(hist.last.before[i]) = w})

C20_NoLimiterNoQuota ==
    (hist # None /\ ~(env.REDIS_URL /\ env.REDIS_TOKEN)) =>
        /\ resp # None => resp.status # 429
        /\ trace.delay = 0
        /\ trace.limiterOutcome = "none"
        /\ pc \notin {"limit", "sleep"}
        /\ hist.last = None
        /\ \A k \in DOMAIN rl : rl[k] = << >>

C20_Witness ==
    /\ hist # None
    /\ env.REDIS_URL /\ ~env.REDIS_TOKEN
    /\ \E k \in DOMAIN hist.unlimited : hist.unlimited[k] = MaxBurst
    /\ pc = "done"
    /\ resp.status = 200

(***************************************************************************)
(* Properties of the client key                                            *)
(***************************************************************************)
\* the first comma-separated element of x-forwarded-for, trimmed
FirstForwarded ==
    IF ipRequest.xForwardedFor = Undefined THEN << >>
    ELSE trim(takeUntil(ipRequest.xForwardedFor.val, ","))

RealIpGiven ==
    ipRequest.xRealIp # Undefined /\ ipRequest.xRealIp.val # << >>

\* C21: the client key is the first comma-separated element of
\* x-forwarded-for, trimmed, when that is non-empty; otherwise the x-real-ip
\* value when non-empty; otherwise 'unknown'. The key is never empty, and
\* requests without either header all get 'unknown'.
C21_ClientKey ==
    ipKey # None =>
        /\ ipKey.key = (IF FirstForwarded # << >> THEN FirstForwarded
                        ELSE IF RealIpGiven THEN ipRequest.xRealIp.val
                        ELSE UnknownIp)
        /\ ipKey.key # << >>
        /\ (ipRequest.xForwardedFor = Undefined /\ ipRequest.xRealIp = Undefined
                => ipKey.key = UnknownIp)

\* an x-forwarded-for whose first element is blank, followed by another
\* address, with x-real-ip set: the key is the x-real-ip value
C21_Witness ==
    /\ ipKey # None
    /\ ipRequest.xForwardedFor = Str(<<" ", ",", "2">>)
    /\ ipRequest.xRealIp = Str(<<"9">>)
    /\ ipKey.key = <<"9">>

(***************************************************************************)
(* Properties of the endpoint: the origin check                            *)
(***************************************************************************)
AnsweredForbidden ==
    resp # None /\ resp.status = 403 /\ resp.body = [message |-> "Forbidden"]

OriginSent == req.origin # Undefined /\ req.origin.val # << >>

\* scheme://host of the configured base origin, when it is set and parses
BaseOrigin ==
    IF env.BETTER_AUTH_URL = Undefined \/ env.BETTER_AUTH_URL.val = << >>
    THEN None
    ELSE LET u == parseURL(env.BETTER_AUTH_URL.val)
         IN  IF u.ok THEN [prefix |-> u.protocol \o <<"/", "/">> \o u.host]
             ELSE None

OriginMismatch ==
    /\ Production
    /\ OriginSent
    /\ BaseOrigin # None
    /\ ~startsWith(req.origin.val, BaseOrigin.prefix)

\* C22 as stated: the answer is 403 'Forbidden' exactly when the environment
\* is production, a non-empty Origin is sent, a base origin is configured and
\* parses, and the Origin does not begin with its scheme://host
C22_ForbiddenIffMismatch ==
    pc = "done" =>
        /\ AnsweredForbidden <=> OriginMismatch
        /\ (~Production \/ req.origin = Undefined) => ~AnsweredForbidden

\* C22: among requests whose body passes validation, the answer is 403
\* 'Forbidden' exactly when the environment is production, a non-empty Origin
\* is sent, a base origin is configured and parses, and the Origin does not
\* begin with its scheme://host; a request with an invalid body is never
\* answered 'Forbidden', nor is any request outside production or without
\* an Origin header
C22_ForbiddenIffValidAndMismatch ==
    pc = "done" =>
        /\ AnsweredForbidden <=> (OriginMismatch /\ BodyValid(req))
        /\ (~Production \/ req.origin = Undefined) => ~AnsweredForbidden

\* a valid request in production whose Origin is another host than the
\* configured one
C22_Witness ==
    /\ pc = "done"
    /\ BodyValid(req) /\ Production
    /\ req.origin = Str(<<"h",":","/","/","b">>)
    /\ env.BETTER_AUTH_URL = Str(<<"H",":","/","/","A","/">>)
    /\ AnsweredForbidden

(***************************************************************************)
(* Properties of the gate: its outcomes                                    *)
(***************************************************************************)
\* a 307 redirect to /login on the origin the request came to
RedirectedToOwnLogin ==
    /\ gResponse.kind = "redirect"
    /\ gResponse.status = 307
    /\ gResponse.location = [origin |-> gRequest.origin, pathname |-> LoginPath]

\* C23: every evaluation of the gate ends in PASS or in a 307 redirect to
\* /login on the request's own origin, never in an error response, and the
\* evaluation changes nothing but the response it hands back
C23_PassOrRedirect ==
    /\ [](gResponse # None => (GatePassed \/ RedirectedToOwnLogin))
    /\ [][gResponse' # gResponse =>
            UNCHANGED <<gRequest, gHops, validatorVars, endpointVars, limiterVars,
                        keyVars, loginVars, seedVars>>]_vars

\* a request to a protected path on the deployed origin with an over-long
\* session token is redirected
C23_Witness ==
    /\ gResponse # None
    /\ gRequest.origin = "https://notes.example"
    /\ gRequest.pathname = <<"/","n","o","t","e","s">>
    /\ GateSession.present /\ Len(GateSession.value) = MaxTokenLength + 1
    /\ RedirectedToOwnLogin

(***************************************************************************)
(* Properties of the login page                                            *)
(***************************************************************************)
\* the endpoint answered the request with a success response
SuccessResponse(o) == o.kind = "response" /\ o.ok

\* C24: the page starts in the email step; it is in the passkey step only
\* with an email that passed the validator and that the endpoint approved;
\* the only move from the email step to the passkey step is the end of a
\* submit whose request got a success response, and it stores the normalized
\* email and clears loading
C24_PasskeyStepOnlyAfterApproval ==
    /\ step = "email"
    /\ [](step = "passkey" =>
            /\ loginEmail \in lhist.approved
            /\ SimpleShape(loginEmail) /\ StrictShape(loginEmail)
            /\ Len(loginEmail) <= 254)
    /\ [][(step = "email" /\ step' = "passkey") =>
            /\ \E o \in FetchOutcomes : SuccessResponse(o) /\ FetchSettles(o)
            /\ IsTrimmedLowercased(loginEmail', loginEmail)
            /\ loginEmail' = pend.validatedEmail
            /\ ~isLoading']_vars

\* an address was approved and the page shows the passkey step with it
C24_Witness ==
    /\ step = "passkey"
    /\ ~isLoading
    /\ loginEmail = <<"a","@","b",".","c","c">>
    /\ lhist.approved = {<<"a","@","b",".","c","c">>}
    /\ lpc = "idle"

\* the message a non-success response carries, if any
CarriedMessage(o) ==
    IF o.body.type = "object" /\ o.body.message # Undefined
                              /\ o.body.message.val # << >>
    THEN o.body.message
    ELSE None

InvalidCredentialsText ==
    <<"I","n","v","a","l","i","d"," ","c","r","e","d","e","n","t","i","a","l","s">>

\* C25: a submit that fails leaves the page in the email step with an error
\* message and loading cleared: when the validator fails, no request is sent
\* and its message is shown; when the response is not a success, its message
\* is shown, or 'Email not allowed' when it carries none; a network error
\* shows a message too
C25_FailedSubmitStaysInEmailStep ==
    /\ [][(HandleEmailSubmit /\ ~emailSchema(Str(loginEmail)).success) =>
            /\ step' = "email" /\ ~isLoading'
            /\ lpc' = "idle"
            /\ error' = Str(issueText(emailSchema(Str(loginEmail)).issues[1]))]_vars
    /\ [][\A o \in FetchOutcomes :
            (FetchSettles(o) /\ ~SuccessResponse(o)) =>
                /\ step' = "email" /\ ~isLoading'
                /\ error' # Null /\ error'.val # << >>
                /\ o.kind = "response" =>
                      error' = (IF CarriedMessage(o) # None THEN CarriedMessage(o)
                                ELSE Str(EmailNotAllowedMessage))]_vars

\* the endpoint refused the address and its message is on display
C25_Witness ==
    /\ step = "email" /\ lpc = "idle" /\ ~isLoading
    /\ loginEmail = <<" ","A","@","b",".","C","C"," ">>
    /\ error = Str(InvalidCredentialsText)

\* a passkey action ends in failure: passkey sign-in threw or timed out
PasskeyActionFails ==
    \/ \E o \in SignInOutcomes : o.kind = "rejected" /\ AfterSignIn(o)
    \/ SignInTimeout

\* C26: every failed passkey action sets a cooldown of 5 seconds, and a click
\* within 5 seconds of a failure starts no new action
C26_CooldownAfterAnyFailure ==
    /\ [][PasskeyActionFails =>
            cooldownUntil' = [type |-> "number", val |-> clock + 5000]]_vars
    /\ [][(HandlePasskeyAuth /\ lhist.failedAt # Null
                             /\ clock < lhist.failedAt.val + 5000) =>
            lpc' = "idle" /\ ~isLoading']_vars

\* C27: 'Change email' sets the step to email, clears the error and resets
\* the rest of the login flow state: the email, the loading flag and the
\* cooldown
C27_ChangeEmailResetsEverything ==
    [][ChangeEmail =>
        /\ step' = "email"
        /\ error' = Null
        /\ loginEmail' = << >>
        /\ isLoading' = FALSE
        /\ cooldownUntil' = Null]_vars

\* the messages written in the page and in the validator
FixedMessages ==
    {AccessDeniedMessage, CancelledMessage, FailedToAuthenticateMessage,
     ValidationFailedMessage, EmailNotAllowedMessage, EnterValidEmailMessage,
     InvalidEmailFormatText, EmailTooLongText, SignInTimeoutMessage}

\* C28: whatever the page displays as an error is one of the fixed generic
\* messages, never text taken from a response body or from a thrown error
C28_OnlyFixedMessages ==
    error # Null => error.val \in FixedMessages

\* the step of the running passkey action, by position
StepTaken(i) == lhist.steps[i]
StepsTaken == Len(lhist.steps)

\* the step ended otherwise than with a result free of errors
EndedBadly(o) ==
    \/ o.kind \in {"rejected", "timeout"}
    \/ o.kind = "resolved" /\ o.result.type = "object" /\ o.result.error # Undefined

\* C29: a passkey action calls sign-up, then passkey registration, then
\* passkey sign-in, in this order; registration is called once sign-up has
\* ended, however it ended; sign-in is called exactly when registration
\* threw, returned an error result or timed out
C29_StepOrder ==
    /\ StepsTaken <= 3
    /\ lpc \in {"signup", "register", "signin"} => StepsTaken >= 1
    /\ StepsTaken >= 1 =>
          /\ StepTaken(1).name = "signUp"
          /\ StepTaken(1).outcome.kind # "pending" <=> StepsTaken >= 2
    /\ StepsTaken >= 2 =>
          /\ StepTaken(2).name = "addPasskey"
          /\ (/\ StepTaken(2).outcome.kind # "pending"
              /\ EndedBadly(StepTaken(2).outcome)) <=> StepsTaken = 3
          /\ (/\ StepTaken(2).outcome.kind # "pending"
              /\ ~EndedBadly(StepTaken(2).outcome)) => lpc = "navigated"
    /\ StepsTaken = 3 => StepTaken(3).name = "passkeySignIn"

\* sign-up returned an error result other than 'already exists',
\* registration returned an error without a message, and passkey sign-in
\* is running
C29_Witness ==
    /\ lpc = "signin"
    /\ StepsTaken = 3
    /\ StepTaken(1).outcome.kind = "resolved"
    /\ signUpThrows(StepTaken(1).outcome.result)
    /\ StepTaken(2).outcome =
          [kind |-> "resolved",
           result |-> [type |-> "object", error |-> [message |-> Undefined]]]

PasskeyActionRunning == lpc \in {"signup", "register", "signin"}

\* C30: a passkey action that has started ends, even when no call to the
\* session authority ever returns: sign-up is given up 3.5 s after it was
\* called, registration 15 s and sign-in 12 s after; the action ends with
\* the page navigating away, or with an error set and loading cleared
C30_PasskeyActionTerminates ==
    /\ PasskeyActionRunning ~>
          (lpc = "navigated" \/ (lpc = "idle" /\ ~isLoading /\ error # Null))
    /\ [](PasskeyActionRunning => clock <= pend.deadline)
    /\ [][(lpc' # lpc /\ lpc' = "signup") => pend'.deadline = clock + 3500]_vars
    /\ [][(lpc' # lpc /\ lpc' = "register") => pend'.deadline = clock + 15000]_vars
    /\ [][(lpc' # lpc /\ lpc' = "signin") => pend'.deadline = clock + 12000]_vars
    /\ [][(PasskeyActionRunning /\ ~PasskeyActionRunning') =>
            \/ lpc' = "navigated"
            \/ lpc' = "idle" /\ ~isLoading' /\ error' # Null]_vars

\* no call returned: the three timers fired in turn and, 30.5 s after the
\* click, the page shows the timeout and is no longer loading
C30_Witness ==
    /\ lpc = "idle" /\ ~isLoading
    /\ clock = 30500
    /\ error = Str(SignInTimeoutMessage)
    /\ cooldownUntil = [type |-> "number", val |-> 35500]

(***************************************************************************)
(* Properties of the seeding script and of the triggers                    *)
(***************************************************************************)
\* the email equals some allowlist entry when case is disregarded
OnAllowlist(e) ==
    \E row \in allowed_emails.rows : toUpperCase(row) = toUpperCase(e)

\* the rows of "user" that a step wrote: inserted, or updated to a new email
RowsWritten == userTable' \ userTable

\* C31: once a seeding run has installed the triggers, every insert into the
\* user table and every update that changes a user's email is rejected unless
\* the new email matches an allowlist entry case-insensitively: whatever the
\* sequence of seeding runs and user writes, the user table never gains a row
\* whose email was not on the allowlist at the time of the write
C31_TriggersGuardUserTable ==
    [][shist.installed => \A r \in RowsWritten : OnAllowlist(r.email)]_vars

\* the list a run was given: the argument, else ALLOWED_EMAILS, else
\* ALLOWED_EMAIL
GivenList(run) ==
    IF run.argv # Undefined /\ run.argv.val # << >> THEN run.argv.val
    ELSE IF run.env.ALLOWED_EMAILS # Undefined THEN run.env.ALLOWED_EMAILS.val
    ELSE IF run.env.ALLOWED_EMAIL # Undefined THEN run.env.ALLOWED_EMAIL.val
    ELSE << >>

\* the trimmed, lowercased form of each email of the list
ListedForms(run) ==
    LET pieces == split(GivenList(run), ",")
    IN  {emailNormalize(pieces[i]) : i \in 1..Len(pieces)} \ {<< >>}

\* C32: a seeding run that completes leaves the allowlist store holding every
\* entry it held before plus the trimmed, lowercased form of each listed
\* email, each once; a run repeated with the same list changes nothing; and
\* no step of any run removes or alters an entry
C32_SeedingAddsNormalizedOnce ==
    /\ [][SeedCreateUpdateTrigger =>
            /\ allowed_emails'.exists
            /\ allowed_emails'.rows = seedRun.before \cup ListedForms(seedRun)
            /\ seedRun.repeated =>
                  allowed_emails'.rows = seedRun.before]_vars
    /\ [][/\ allowed_emails.rows \subseteq allowed_emails'.rows
          /\ allowed_emails.exists => allowed_emails'.exists]_vars

\* the second run with the list ' A, ,b' is at its last statement: the store
\* holds 'a' and 'b', as it did before that run
C32_Witness ==
    /\ seedRun # None
    /\ seedRun.pc = "createUpdate"
    /\ seedRun.repeated
    /\ seedRun.argv = Str(<<" ","A",","," ",",","b">>)
    /\ seedRun.before = {<<"a">>, <<"b">>}
    /\ allowed_emails.rows = {<<"a">>, <<"b">>}

(***************************************************************************)
(* Properties of the login page: navigation, 'Change email', the cooldown  *)
(***************************************************************************)
\* the call that ended last in the passkey action
LastStep == StepTaken(StepsTaken)

\* C33: the page navigates to the protected root only after passkey
\* registration or passkey sign-in has succeeded: a registration or sign-in
\* that threw, timed out or returned an error-valued result never leads to
\* navigation
C33_NavigatesOnlyOnSuccess ==
    lpc = "navigated" =>
        /\ StepsTaken >= 2
        /\ LastStep.name \in {"addPasskey", "passkeySignIn"}
        /\ LastStep.outcome.kind = "resolved"
        /\ ~EndedBadly(LastStep.outcome)

\* a passkey action is running and the page shows the email step
InFlightInEmailStep == PasskeyActionRunning /\ step = "email"

\* the running passkey action ends in this step
PasskeyActionEnds == PasskeyActionRunning /\ ~PasskeyActionRunning'

\* C37: 'Change email' does not cancel a passkey action that is in flight:
\* after it the page is in the email step with loading still set until the
\* action completes, and the completion still takes effect: it navigates
\* away on success, or it sets an error (and possibly a cooldown) that is
\* shown in the email step
C37_ChangeEmailDoesNotCancel ==
    /\ [][(ChangeEmail /\ PasskeyActionRunning) =>
            /\ step' = "email"
            /\ isLoading'
            /\ PasskeyActionRunning'
            /\ UNCHANGED <<lpc, pend>>]_vars
    /\ [](InFlightInEmailStep => isLoading)
    /\ [][(InFlightInEmailStep /\ PasskeyActionEnds) =>
            \/ lpc' = "navigated"
            \/ /\ lpc' = "idle"
               /\ step' = "email"
               /\ error' # Null
               /\ ~isLoading'
               /\ cooldownUntil' \in {cooldownUntil,
                                      [type |-> "number", val |-> clock + CooldownMs]}]_vars
    /\ [][\A o \in RegistrationOutcomes :
            (/\ InFlightInEmailStep
             /\ AfterRegistration(o)
             /\ o.kind = "resolved"
             /\ ~EndedBadly(o)) => lpc' = "navigated"]_vars
    /\ [][\A o \in SignInOutcomes :
            (/\ InFlightInEmailStep
             /\ AfterSignIn(o)
             /\ o.kind = "resolved"
             /\ ~EndedBadly(o)) => lpc' = "navigated"]_vars

\* 'Change email' was clicked while passkey sign-in was running
C37_Witness ==
    /\ step = "email"
    /\ lpc = "signin"
    /\ isLoading
    /\ error = Null

\* the current time is earlier than the cooldown deadline
CooldownActive == cooldownUntil # Null /\ clock < cooldownUntil.val

\* C38: while a cooldown is active, invoking the passkey action changes no
\* state of the page (step, email, error, loading, cooldown) and calls the
\* session authority not at all; once the deadline has passed the action
\* runs normally
C38_CooldownBlocksAction ==
    /\ [][(HandlePasskeyAuth /\ CooldownActive) =>
            /\ UNCHANGED <<step, loginEmail, error, isLoading, cooldownUntil>>
            /\ ~PasskeyActionRunning'
            /\ lhist'.steps = lhist.steps]_vars
    /\ [][(HandlePasskeyAuth /\ ~CooldownActive) =>
            /\ isLoading'
            /\ error' = Null
            /\ lpc' = "signup"
            /\ StepsTaken' = 1]_vars

\* the cooldown set by a failure at time 0 has just run out, and the action
\* started again
C38_Witness ==
    /\ lpc = "signup"
    /\ cooldownUntil # Null
    /\ clock = cooldownUntil.val
    /\ clock = CooldownMs

(***************************************************************************)
(* Properties of the endpoint: the order of its checks                     *)
(***************************************************************************)
\* development (any environment but production) with a configured list
\* that has at least one entry
FastPathConfigured == ~Production /\ ConfiguredList # {}

LimiterPresent == env.REDIS_URL /\ env.REDIS_TOKEN

\* C34: outside production with a non-empty configured list no request
\* reaches the origin check or the rate limiter: nothing is counted, no
\* request is answered 429 or delayed, however many requests one client
\* sends within the window, even when the limiter is configured
C34_FastPathSkipsLimiter ==
    (hist # None /\ FastPathConfigured) =>
        /\ resp # None => resp.status \notin {429, 500}
        /\ ~trace.originChecked
        /\ trace.limiterOutcome = "none"
        /\ trace.delay = 0
        /\ pc \in {"idle", "done"}
        /\ hist.last = None
        /\ \A k \in DOMAIN rl : rl[k] = << >> /\ rlCache[k] = 0
        /\ \A k \in DOMAIN hist.counted : hist.counted[k] = << >>

\* with the limiter configured, a client has sent more requests than the
\* quota between two clock steps, and the last one was answered 200
C34_Witness ==
    /\ hist # None
    /\ FastPathConfigured
    /\ LimiterPresent
    /\ \E k \in DOMAIN hist.unlimited : hist.unlimited[k] = MaxBurst
    /\ MaxBurst > LimiterTokens
    /\ pc = "done"
    /\ resp.status = 200

ConnectionStringSet == env.DATABASE_URL # Undefined /\ env.DATABASE_URL.val # << >>

LimiterCalled == trace.limiterOutcome # "none"

\* C35: the endpoint applies its checks in the order input validation, fast
\* path, origin check, rate limiter, connection-string check, store query,
\* and stops at the first that decides: a request answered 400 or 403
\* 'Forbidden' has not called the limiter, and a request answered at the
\* limiter (429, or 500 after a limiter error in production) or answered 500
\* 'Server misconfiguration' has not queried the store
C35_ChecksInOrder ==
    /\ (trace.originChecked \/ LimiterCalled \/ trace.storeQueried) =>
          (~FastPathConfigured /\ BodyValid(req))
    /\ LimiterCalled =>
          /\ ~OriginMismatch
          /\ Production <=> trace.originChecked
    /\ trace.storeQueried =>
          /\ ~OriginMismatch
          /\ ConnectionStringSet
          /\ LimiterPresent => \/ trace.limiterOutcome = "success"
                               \/ trace.limiterOutcome = "error" /\ ~Production
    /\ pc = "done" =>
          /\ (resp.status = 400 \/ AnsweredForbidden) =>
                ~LimiterCalled /\ ~trace.storeQueried
          /\ resp.status = 429 => ~trace.storeQueried
          /\ (Production /\ trace.limiterOutcome = "error") =>
                resp = ValidationFailed500 /\ ~trace.storeQueried
          /\ resp = Misconfiguration500 =>
                ~ConnectionStringSet /\ ~trace.storeQueried
          /\ (/\ ~ConnectionStringSet
              /\ ~FastPathConfigured /\ ~OriginMismatch
              /\ trace.limiterOutcome \in {"none", "success", "error"}
              /\ ~(Production /\ trace.limiterOutcome = "error")
              /\ resp.status # 400) => resp = Misconfiguration500

\* in production, with the limiter allowing the request and no connection
\* string, a valid request with a matching origin is answered 500 'Server
\* misconfiguration'
C35_Witness ==
    /\ pc = "done"
    /\ Production
    /\ OriginSent /\ BaseOrigin # None
    /\ trace.originChecked
    /\ trace.limiterOutcome = "success"
    /\ resp = Misconfiguration500
    /\ ~trace.storeQueried

\* C36: outside production the configured-list fallback taken after a store
\* error never authorizes: the store is queried only when the configured
\* list is empty, so every store error outside production is answered 403
\* {message: 'Invalid credentials'}, never 200 or 500
C36_DevFallbackNeverAuthorizes ==
    ~Production =>
        /\ trace.storeQueried => ConfiguredList = {}
        /\ (pc = "done" /\ QueryFailed) =>
              /\ resp.status = 403
              /\ resp.body = [message |-> "Invalid credentials"]

\* in development the configured list holds separators only, the table is
\* missing, and the request is answered 403
C36_Witness ==
    /\ pc = "done"
    /\ ~Production
    /\ env.ALLOWED_EMAILS = Str(<<",", " ">>)
    /\ QueryFailed
    /\ TableMissingSignature(trace.queryOutcome.err)
    /\ resp.status = 403

(***************************************************************************)
(* Properties of the gate: following its redirect                          *)
(***************************************************************************)
\* C39: following the gate's redirect never produces another redirect: the
\* request for /login that the client sends next passes, whatever cookies it
\* carries, so a client that follows redirects reaches PASS after at most one
\* redirect
C39_OneRedirectAtMost ==
    /\ [](gHops <= 1)
    /\ []((gHops = 1 /\ gResponse # None) => GatePassed)
    /\ [][FollowRedirect => gRequest'.pathname = LoginPath]_vars
    /\ <>GatePassed

\* a request for /notes with a session token of the wrong length was
\* redirected, the client followed, and the request for /login passed
C39_Witness ==
    /\ gHops = 1
    /\ GatePassed
    /\ gRequest.pathname = LoginPath
    /\ GateSession.present
    /\ tokenFormatRejected(GateSession.value)

====
